---- MODULE Spec2Model ----
(***************************************************************************)
(* Model of the opencode-otel event translator: src/src/hooks.ts           *)
(* (handleEvent and its helpers), the telemetry context built by           *)
(* src/src/telemetry.ts (initTelemetry) and the plugin wiring of           *)
(* src/src/index.ts.                                                       *)
(*                                                                         *)
(* JavaScript values are tagged records, so that `undefined`, numbers,     *)
(* strings, booleans and objects can sit in one payload or attribute set:  *)
(*   Undef, Null, Num(n), Bool(b), Obj(f)                                  *)
(*   Str(s)  - a string the code only copies or compares (ids, names)      *)
(*   Text(c) - a string whose characters the code inspects (trim,          *)
(*             toLowerCase, includes, length, slice): a sequence of        *)
(*             one-character strings                                       *)
(* The clock is Date.now() in milliseconds; it never runs backwards.       *)
(***************************************************************************)
EXTENDS Integers, Sequences, FiniteSets, TLC

VARIABLES
    config,             \* HookState.config (OtelConfig), fixed at startup
    telemetry,          \* HookState.telemetry (TelemetryContext), fixed at startup
    sessions,           \* HookState.sessions: Map sessionId -> SessionState
    pendingToolCalls,   \* HookState.pendingToolCalls: Map callID -> ToolCallState
    emittedMessageIds,  \* HookState.emittedMessageIds: Set of message ids
    eventSequence,      \* HookState.eventSequence
    enabled,            \* HookState.enabled
    promptId,           \* HookState.promptId
    now,                \* Date.now(), milliseconds
    uuidsDrawn,         \* how many identifiers randomUUID() has handed out
    events,             \* log sink: every record handed to logger.emit, in order
    metrics,            \* metric sink: every counter.add(amount, attributes), in order
    hist,               \* one entry per delivered event: the event and what it produced
    encoded             \* the attribute sets given to the payload encoder, with its results

vars == <<config, telemetry, sessions, pendingToolCalls, emittedMessageIds,
          eventSequence, enabled, promptId, now, uuidsDrawn, events, metrics, hist,
          encoded>>

(***************************************************************************)
(* Bounds of the model.                                                    *)
(***************************************************************************)
MaxSteps == 3       \* delivered events per behaviour
MaxTime == 2        \* the clock runs from 0 to MaxTime milliseconds

(***************************************************************************)
(* JavaScript values.                                                      *)
(***************************************************************************)
Undef == [t |-> "undefined"]
Null == [t |-> "null"]
Num(n) == [t |-> "num", n |-> n, d |-> 1]
Str(s) == [t |-> "str", s |-> s]
Text(c) == [t |-> "text", c |-> c]
Bool(b) == [t |-> "bool", b |-> b]
Obj(f) == [t |-> "obj", f |-> f]
EmptyObj == [k \in {} |-> Undef]

IsString(v) == v.t \in {"str", "text"}
Nullish(v) == v.t \in {"undefined", "null"}
\* a ?? b
Coalesce(a, b) == IF Nullish(a) THEN b ELSE a
\* ToBoolean(v)
Truthy(v) ==
    CASE v.t = "undefined" -> FALSE
      [] v.t = "null" -> FALSE
      [] v.t = "num" -> v.n # 0
      [] v.t = "str" -> v.s # ""
      [] v.t = "text" -> v.c # <<>>
      [] v.t = "bool" -> v.b
      [] OTHER -> TRUE
\* o?.k, and o.k where o is known not to be nullish: a missing property, or a
\* property of a primitive, reads as undefined
Field(o, k) == IF o.t = "obj" /\ k \in DOMAIN o.f THEN o.f[k] ELSE Undef
\* { ...a, ...b }
Spread(a, b) == [k \in DOMAIN a \cup DOMAIN b |-> IF k \in DOMAIN b THEN b[k] ELSE a[k]]

(***************************************************************************)
(* String.prototype.trim and toLowerCase on Text.                          *)
(***************************************************************************)
WhiteSpace == {" ", "\n", "\t", "\r"}
Upper == <<"A","B","C","D","E","F","G","H","I","J","K","L","M",
           "N","O","P","Q","R","S","T","U","V","W","X","Y","Z">>
LowerOf == <<"a","b","c","d","e","f","g","h","i","j","k","l","m",
             "n","o","p","q","r","s","t","u","v","w","x","y","z">>
LowerChar(ch) ==
    IF \E i \in 1..Len(Upper) : Upper[i] = ch
    THEN LowerOf[CHOOSE i \in 1..Len(Upper) : Upper[i] = ch]
    ELSE ch
toLowerCase(c) == [i \in 1..Len(c) |-> LowerChar(c[i])]
RECURSIVE trimStart(_)
trimStart(c) == IF c # <<>> /\ Head(c) \in WhiteSpace THEN trimStart(Tail(c)) ELSE c
RECURSIVE trimEnd(_)
trimEnd(c) ==
    IF c # <<>> /\ c[Len(c)] \in WhiteSpace THEN trimEnd(SubSeq(c, 1, Len(c) - 1)) ELSE c
trim(c) == trimEnd(trimStart(c))

(***************************************************************************)
(* Date.prototype.toISOString for the first second of the epoch.           *)
(***************************************************************************)
Digit == <<"0", "1", "2", "3", "4", "5", "6", "7", "8", "9">>
toISOString(ms) ==
    "1970-01-01T00:00:00." \o Digit[((ms \div 100) % 10) + 1]
        \o Digit[((ms \div 10) % 10) + 1] \o Digit[(ms % 10) + 1] \o "Z"

(***************************************************************************)
(* Telemetry profiles and the telemetry context (telemetry.ts).            *)
(***************************************************************************)
PROFILES ==
    [p \in {"opencode", "claude-code"} |->
        IF p = "opencode"
        THEN [serviceName |-> "opencode", meterName |-> "com.opencode.telemetry",
              loggerName |-> "com.opencode.telemetry.events", prefix |-> "opencode"]
        ELSE [serviceName |-> "claude-code", meterName |-> "com.anthropic.claude_code",
              loggerName |-> "com.anthropic.claude_code.events", prefix |-> "claude_code"]]

\* The context initTelemetry returns. Its fields are meter, metrics,
\* loggerProvider, meterProvider, prefix, emitEvent and shutdown: the translator
\* reads prefix and profile from it, and only prefix is there.
initTelemetry(cfg) == [prefix |-> PROFILES[cfg.telemetryProfile].prefix]

\* telemetry.profile as hooks.ts reads it: a property the object may not have
profileOf(tel) == IF "profile" \in DOMAIN tel THEN tel.profile ELSE "undefined"

\* getUserId() and detectTerminal() (runtime.ts): external lookups
userId == Str("user-0")
terminalType == Undef


(***************************************************************************)
(* The hook state a handler works on: the HookState fields it can change,  *)
(* the fixed config and telemetry context, the sinks' records of this      *)
(* event (logs, adds), whether the handler threw, and what it returned.    *)
(***************************************************************************)
NumQ(n, d) == [t |-> "num", n |-> n, d |-> d]
Arr(a) == [t |-> "arr", a |-> a]

\* telemetry.emitEvent(prefixedName, unprefixedName, attrs): logger.emit of a
\* record whose body is the prefixed name and whose attributes are
\* { "event.name": unprefixedName, ...attrs }
emitEvent(h, prefixedName, unprefixedName, attrs) ==
    [h EXCEPT !.logs = Append(@, [body |-> prefixedName,
                                  attributes |-> Spread("event.name" :> Str(unprefixedName), attrs)])]

\* `${telemetry.prefix}.${name}`
prefixed(h, name) == h.telemetry.prefix \o "." \o name

\* telemetry.metrics.<counter>.add(amount, attrs); the counter's name carries
\* the profile's prefix (initTelemetry: meter.createCounter(`${p}.<name>`))
counterAdd(h, counter, amount, attrs) ==
    [h EXCEPT !.adds = Append(@, [name |-> prefixed(h, counter), amount |-> amount,
                                  attributes |-> attrs])]

\* base attributes that take the session id whatever the configuration says
commonAttributesAnyConfig(h, sessionId) ==
    LET a1 == "user.id" :> userId
    IN  IF Truthy(sessionId) THEN Spread(a1, "session.id" :> sessionId) ELSE a1

commonAttributes(h, sessionId) ==
    LET a1 == "user.id" :> userId
        a2 == IF Truthy(sessionId) /\ h.config.includeSessionId
              THEN Spread(a1, "session.id" :> sessionId) ELSE a1
        a3 == IF Truthy(terminalType)
              THEN Spread(a2, "terminal.type" :> terminalType) ELSE a2
    IN  IF h.config.includeVersion THEN Spread(a3, "app.version" :> Str("0.1.0")) ELSE a3

\* an attribute set that leaves the prompt id out
eventAttributesNoPrompt(h, sessionId, t) ==
    Spread(commonAttributes(h, sessionId),
           ("event.timestamp" :> Str(toISOString(t)))
               @@ ("event.sequence" :> Num(h.eventSequence)))

\* The attribute set eventAttributes returns, built from the counter's value
\* before the increment
eventAttributes(h, sessionId, t) ==
    LET attrs == Spread(commonAttributes(h, sessionId),
                        ("event.timestamp" :> Str(toISOString(t)))
                            @@ ("event.sequence" :> Num(h.eventSequence)))
    IN  IF Truthy(h.promptId) THEN Spread(attrs, "prompt.id" :> h.promptId) ELSE attrs

\* state.eventSequence++ of eventAttributes
nextSequence(h) == [h EXCEPT !.eventSequence = @ + 1]

(***************************************************************************)
(* String(v) of a number: the decimal digits of an integer; a fraction     *)
(* n/d with d a power of ten prints with its decimal point.                *)
(***************************************************************************)
RECURSIVE Dec(_)
Dec(n) == IF n < 10 THEN Digit[n + 1] ELSE Dec(n \div 10) \o Digit[(n % 10) + 1]
RECURSIVE FracDigits(_, _)
FracDigits(r, d) ==
    IF r = 0 \/ d <= 1 THEN ""
    ELSE Digit[((r * 10) \div d) + 1] \o FracDigits((r * 10) % d, d)
NumberToString(v) ==
    LET neg == v.n < 0
        a == IF neg THEN 0 - v.n ELSE v.n
        whole == Dec(a \div v.d)
        frac == FracDigits(a % v.d, v.d)
    IN  (IF neg THEN "-" ELSE "") \o whole \o (IF frac = "" THEN "" ELSE "." \o frac)

\* an encoder that turns booleans into strings as well
stringifyAllAttrs(attrs) ==
    [k \in DOMAIN attrs |->
        IF attrs[k].t = "num" THEN Str(NumberToString(attrs[k]))
        ELSE IF attrs[k].t = "bool" THEN Str(IF attrs[k].b THEN "true" ELSE "false")
        ELSE attrs[k]]

stringifyNumericAttrs(attrs) ==
    [k \in DOMAIN attrs |-> IF attrs[k].t = "num" THEN Str(NumberToString(attrs[k])) ELSE attrs[k]]

\* telemetry.profile === "claude-code" ? stringifyNumericAttrs(payload) : payload
encodePayload(h, payload) ==
    IF profileOf(h.telemetry) = "claude-code" THEN stringifyNumericAttrs(payload) ELSE payload

\* emitEvent(`${prefix}.${name}`, name, { ...eventAttributes(state, sessionId),
\* ...encoded payload }): the attributes are built first (the counter moves),
\* then the record is emitted
emitWithEventAttributes(h, name, sessionId, payload, t) ==
    LET attrs == Spread(eventAttributes(h, sessionId, t), encodePayload(h, payload))
    IN  emitEvent(nextSequence(h), prefixed(h, name), name, attrs)

\* a thrown TypeError leaves the handler at once
throw(h) == [h EXCEPT !.threw = TRUE]

\* a JavaScript number greater than zero (x > 0)
Gt0(v) == v.t = "num" /\ v.n > 0

(***************************************************************************)
(* Session lifecycle, file edits, message parts, message updates, errors,  *)
(* permissions and diffs: the cases of handleEvent's switch.               *)
(***************************************************************************)
\* props.info?.id ?? props.id ?? props.sessionID
resolveSessionId(props) ==
    Coalesce(Coalesce(Field(Field(props, "info"), "id"), Field(props, "id")),
             Field(props, "sessionID"))

\* a lookup that knows only the nested form of the id
createdSessionIdNested(props) == Field(Field(props, "info"), "id")

\* props.info?.id ?? props.id
createdSessionId(props) == Coalesce(Field(Field(props, "info"), "id"), Field(props, "id"))

onSessionCreated(h, props, t) ==
    LET sessionId == createdSessionId(props)
        h1 == [h EXCEPT !.sessions =
                  [k \in DOMAIN h.sessions \cup {sessionId} |->
                      IF k = sessionId
                      THEN [sessionId |-> sessionId, startedAt |-> t, lastActivityAt |-> t]
                      ELSE h.sessions[k]]]
        h2 == counterAdd(h1, "session.count", Num(1), commonAttributes(h1, sessionId))
        title == Coalesce(Field(Field(props, "info"), "title"), Str(""))
    IN  IF ~Truthy(sessionId) THEN h
        ELSE IF profileOf(h.telemetry) # "claude-code"
        THEN emitEvent(nextSequence(h2), prefixed(h2, "session.created"), "session.created",
                       Spread(eventAttributes(h2, sessionId, t), "session.title" :> title))
        ELSE h2

\* a handler that moves the creation timestamp instead
touchCreation(h, sessionId, t) == [h EXCEPT !.sessions[sessionId].startedAt = t]

\* a handler that leaves the last-activity timestamp alone
touchKeeps(h, sessionId, t) == h

\* session.lastActivityAt = Date.now()
touch(h, sessionId, t) == [h EXCEPT !.sessions[sessionId].lastActivityAt = t]

onSessionIdle(h, props, t) ==
    LET sessionId == resolveSessionId(props)
        found == Truthy(sessionId) /\ sessionId \in DOMAIN h.sessions
        activeMs == t - h.sessions[sessionId].lastActivityAt
        h1 == IF activeMs > 0
              THEN counterAdd(h, "active_time.total", NumQ(activeMs, 1000),
                              commonAttributes(h, sessionId))
              ELSE h
    IN  IF found THEN touch(h1, sessionId, t) ELSE h

\* a handler that drops the session it was told about
onSessionStatusForgets(h, props, t) ==
    LET sessionId == resolveSessionId(props)
    IN  [h EXCEPT !.sessions = [k \in DOMAIN h.sessions \ {sessionId} |-> h.sessions[k]]]

onSessionStatus(h, props, t) ==
    LET sessionId == resolveSessionId(props)
    IN  IF Truthy(sessionId) /\ sessionId \in DOMAIN h.sessions
        THEN touch(h, sessionId, t) ELSE h

onFileEdited(h, props) ==
    LET added == Coalesce(Coalesce(Field(props, "linesAdded"), Field(props, "added")), Num(0))
        removed == Coalesce(Coalesce(Field(props, "linesRemoved"), Field(props, "removed")), Num(0))
        h1 == IF Gt0(added)
              THEN counterAdd(h, "lines_of_code.count", added,
                              Spread(commonAttributes(h, Undef), "type" :> Str("added")))
              ELSE h
    IN  IF Gt0(removed)
        THEN counterAdd(h1, "lines_of_code.count", removed,
                        Spread(commonAttributes(h1, Undef), "type" :> Str("removed")))
        ELSE h1

\* the error payload of an api_error event: name, message and, when the
\* payload has them, status code and (withRetryable) the retryability flag
errorPayload(error, defaultName, withRetryable) ==
    LET data == Field(error, "data")
        p1 == ("error.name" :> Coalesce(Field(error, "name"), Str(defaultName)))
                @@ ("error.message" :> Coalesce(Field(data, "message"), Str("unknown")))
        p2 == IF Truthy(Field(data, "statusCode"))
              THEN Spread(p1, "error.status_code" :> Field(data, "statusCode")) ELSE p1
    IN  IF withRetryable /\ Field(data, "isRetryable").t # "undefined"
        THEN Spread(p2, "error.is_retryable" :> Field(data, "isRetryable")) ELSE p2

\* a handler that emits nothing for a message part
onMessagePartUpdatedDrops(h, props, t) == h

\* a handler that counts the tokens of a step part
onMessagePartUpdatedCountsSteps(h, props, t) ==
    LET part == Coalesce(Field(props, "part"), props)
    IN  IF Field(part, "type") = Str("step-finish")
        THEN counterAdd(h, "token.usage", Field(Field(part, "tokens"), "input"),
                        commonAttributes(h, Field(part, "sessionID")))
        ELSE IF Field(part, "type") = Str("retry")
        THEN emitWithEventAttributes(h, "api_error", Field(part, "sessionID"),
                                     "attempt" :> Coalesce(Field(part, "attempt"), Num(0)), t)
        ELSE h

onMessagePartUpdated(h, props, t) ==
    LET part == Coalesce(Field(props, "part"), props)
        sessionId == Coalesce(Field(part, "sessionID"), Field(props, "sessionID"))
        payload == Spread(errorPayload(Field(part, "error"), "APIError", TRUE),
                          "attempt" :> Coalesce(Field(part, "attempt"), Num(0)))
    IN  IF Field(part, "type") = Str("retry")
        THEN emitWithEventAttributes(h, "api_error", sessionId, payload, t)
        ELSE h

emitTokenMetrics(h, sessionId, tokens, model) ==
    LET one(g, amount, type) ==
            IF Truthy(amount)
            THEN counterAdd(g, "token.usage", amount,
                            Spread(commonAttributes(g, sessionId),
                                   ("type" :> Str(type)) @@ ("model" :> model)))
            ELSE g
        cache == Field(tokens, "cache")
    IN  one(one(one(one(h, Field(tokens, "input"), "input"),
                    Field(tokens, "output"), "output"),
                Field(cache, "read"), "cacheRead"),
            Field(cache, "write"), "cacheCreation")

\* completed - created of two JavaScript numbers
NumSub(a, b) == NumQ(a.n * b.d - b.n * a.d, a.d * b.d)

\* a handler that forgets to record the message id
markEmittedForgets(h, messageId) == h

\* state.emittedMessageIds.add(messageId)
markEmitted(h, messageId) == [h EXCEPT !.emittedMessageIds = @ \cup {messageId}]

\* a completion test that takes every message for complete
incompleteNever(time) == FALSE

\* msg.time?.completed === undefined
incomplete(time) == Field(time, "completed").t = "undefined"

onMessageUpdated(h, props, t) ==
    LET msg == Field(props, "info")
        sessionId == Field(msg, "sessionID")
        messageId == Field(msg, "id")
        model == Coalesce(Field(msg, "modelID"), Str("unknown"))
        tokens == Field(msg, "tokens")
        cost == Field(msg, "cost")
        time == Field(msg, "time")
        cache == Field(tokens, "cache")
        h1 == markEmitted(h, messageId)
        h2 == emitTokenMetrics(h1, sessionId, tokens, model)
        h3 == IF cost.t = "num" /\ cost.n > 0
              THEN counterAdd(h2, "cost.usage", cost,
                              Spread(commonAttributes(h2, sessionId), "model" :> model))
              ELSE h2
        durationMs == IF Truthy(Field(time, "completed")) /\ Truthy(Field(time, "created"))
                      THEN NumSub(Field(time, "completed"), Field(time, "created"))
                      ELSE Num(0)
        apiPayload ==
            ("model" :> model)
            @@ ("input_tokens" :> Coalesce(Field(tokens, "input"), Num(0)))
            @@ ("output_tokens" :> Coalesce(Field(tokens, "output"), Num(0)))
            @@ ("cache_read_tokens" :> Coalesce(Field(cache, "read"), Num(0)))
            @@ ("cache_creation_tokens" :> Coalesce(Field(cache, "write"), Num(0)))
            @@ ("cost_usd" :> IF cost.t = "num" THEN cost ELSE Num(0))
            @@ ("duration_ms" :> durationMs)
            @@ ("speed" :> Str("normal"))
        h4 == emitWithEventAttributes(h3, "api_request", sessionId, apiPayload, t)
    IN  IF ~Truthy(msg) \/ Field(msg, "role") # Str("assistant") THEN h
        ELSE IF ~Truthy(tokens) \/ messageId \in h.emittedMessageIds THEN h
        ELSE IF incomplete(time) THEN h
        ELSE IF Truthy(Field(msg, "error"))
        THEN emitWithEventAttributes(h4, "api_error", sessionId,
                                     errorPayload(Field(msg, "error"), "UnknownError", FALSE), t)
        ELSE h4

onSessionError(h, props, t) ==
    LET error == Field(props, "error")
    IN  IF Truthy(error)
        THEN emitWithEventAttributes(h, "api_error", Field(props, "sessionID"),
                                     errorPayload(error, "UnknownError", TRUE), t)
        ELSE h

onPermissionReplied(h, props) ==
    LET response == Field(props, "response")
        decision == IF response = Str("once") \/ response = Str("always")
                    THEN "accept" ELSE "reject"
    IN  counterAdd(h, "tool.decision", Num(1),
                   Spread(commonAttributes(h, Field(props, "sessionID")),
                          "decision" :> Str(decision)))

\* totalAdded / totalRemoved: the sum of d[key] ?? 0 over the entries
RECURSIVE SumField(_, _)
SumField(a, key) ==
    IF a = <<>> THEN 0
    ELSE Coalesce(Field(Head(a), key), Num(0)).n + SumField(Tail(a), key)

onSessionDiff(h, props) ==
    LET sessionId == Field(props, "sessionID")
        diffs == Field(props, "diff")
        bad == diffs.t # "arr" \/ \E i \in 1..Len(diffs.a) : Nullish(diffs.a[i])
        totalAdded == SumField(diffs.a, "additions")
        totalRemoved == SumField(diffs.a, "deletions")
        h1 == IF totalAdded > 0
              THEN counterAdd(h, "lines_of_code.count", Num(totalAdded),
                              Spread(commonAttributes(h, sessionId), "type" :> Str("added")))
              ELSE h
    IN  IF ~Truthy(diffs) THEN h
        ELSE IF bad THEN throw(h)
        ELSE IF totalRemoved > 0
        THEN counterAdd(h1, "lines_of_code.count", Num(totalRemoved),
                        Spread(commonAttributes(h1, sessionId), "type" :> Str("removed")))
        ELSE h1

(***************************************************************************)
(* Text operations used by the tool and chat handlers.                     *)
(***************************************************************************)
\* the literal w sits in c at position i
LitAt(c, i, w) == i >= 1 /\ i + Len(w) - 1 <= Len(c) /\ SubSeq(c, i, i + Len(w) - 1) = w
\* String.prototype.includes
Includes(c, w) == \E i \in 1..(Len(c) + 1) : LitAt(c, i, w)
\* String.prototype.slice(0, n)
\* a slice that takes the whole string
sliceAll(c, n) == c

\* a slice that takes one character more
sliceInclusive(c, n) == SubSeq(c, 1, IF Len(c) < n + 1 THEN Len(c) ELSE n + 1)

slice0(c, n) == SubSeq(c, 1, IF Len(c) < n THEN Len(c) ELSE n)
\* \w of a regular expression
WordChars ==
    {Upper[i] : i \in 1..Len(Upper)} \cup {LowerOf[i] : i \in 1..Len(LowerOf)}
        \cup {Digit[i] : i \in 1..Len(Digit)} \cup {"_"}
IsWord(c, i) == i >= 1 /\ i <= Len(c) /\ c[i] \in WordChars
\* \b between positions i-1 and i
Boundary(c, i) == IsWord(c, i - 1) # IsWord(c, i)
\* \s+ fills positions i..j-1 (at least one)
Spaces(c, i, j) == j > i /\ \A k \in i..(j - 1) : k <= Len(c) /\ c[k] \in WhiteSpace

GIT == <<"g", "i", "t">>
COMMIT == <<"c", "o", "m", "m", "i", "t">>
GH == <<"g", "h">>
PR == <<"p", "r">>
CREATE == <<"c", "r", "e", "a", "t", "e">>
PUSH == <<"p", "u", "s", "h">>
DASHES == <<"-", "-">>
PULLREQUEST == <<"p", "u", "l", "l", "-", "r", "e", "q", "u", "e", "s", "t">>
ERROR == <<"E", "r", "r", "o", "r">>

\* a commit test that looks for the word commit anywhere
matchesGitCommitLoose(c) == Includes(c, COMMIT)

\* /\bgit\s+commit\b/.test(cmd)
matchesGitCommit(c) ==
    \E i \in 1..Len(c) :
        /\ Boundary(c, i) /\ LitAt(c, i, GIT)
        /\ \E j \in (i + 4)..Len(c) :
            Spaces(c, i + 3, j) /\ LitAt(c, j, COMMIT) /\ Boundary(c, j + 6)

\* /\bgh\s+pr\s+create\b/.test(cmd)
matchesGhPrCreate(c) ==
    \E i \in 1..Len(c) :
        /\ Boundary(c, i) /\ LitAt(c, i, GH)
        /\ \E j \in (i + 3)..Len(c) :
            /\ Spaces(c, i + 2, j) /\ LitAt(c, j, PR)
            /\ \E k \in (j + 3)..Len(c) :
                Spaces(c, j + 2, k) /\ LitAt(c, k, CREATE) /\ Boundary(c, k + 6)

\* /\bgit\s+push\b.*--.*pull-request/.test(cmd): `.` does not cross a line break
matchesGitPushPr(c) ==
    \E i \in 1..Len(c) :
        /\ Boundary(c, i) /\ LitAt(c, i, GIT)
        /\ \E j \in (i + 4)..Len(c) :
            /\ Spaces(c, i + 3, j) /\ LitAt(c, j, PUSH) /\ Boundary(c, j + 4)
            /\ \E k \in (j + 4)..Len(c) :
                /\ LitAt(c, k, DASHES)
                /\ \E m \in (k + 2)..Len(c) :
                    /\ LitAt(c, m, PULLREQUEST)
                    /\ \A x \in (j + 4)..(m - 1) : c[x] # "\n"

\* outStr.split("\n").length
splitLines(c) == 1 + Cardinality({i \in 1..Len(c) : c[i] = "\n"})

\* Array.prototype.join("\n") of Text values
RECURSIVE joinLines(_)
joinLines(a) ==
    IF a = <<>> THEN <<>>
    ELSE IF Len(a) = 1 THEN a[1].c
    ELSE a[1].c \o <<"\n">> \o joinLines(Tail(a))

\* JSON.stringify of the tool arguments: an object of Text-valued properties
\* (one property in the payloads of this model), or a Text. The strings of
\* this model hold no character JSON escapes (quote, backslash, control)
KeyChars ==
    ("command" :> <<"c", "o", "m", "m", "a", "n", "d">>)
        @@ ("path" :> <<"p", "a", "t", "h">>)
jsonString(c) == <<"\"">> \o c \o <<"\"">>
jsonStringify(v) ==
    IF v.t = "text" THEN jsonString(v.c)
    ELSE IF v.t = "obj" /\ DOMAIN v.f # {}
    THEN LET k == CHOOSE k \in DOMAIN v.f : TRUE
         IN  <<"{">> \o jsonString(KeyChars[k]) \o <<":">> \o jsonString(v.f[k].c) \o <<"}">>
    ELSE <<"{", "}">>

(***************************************************************************)
(* Tool execution.                                                         *)
(***************************************************************************)
MaxToolArgs == 2048
MaxPrompt == 4096

\* a handler that keeps the record a call id already has
onToolExecuteBeforeKeepsFirst(h, props, t) ==
    LET callID == Field(props, "callID")
    IN  IF callID \in DOMAIN h.pendingToolCalls THEN h
        ELSE [h EXCEPT !.pendingToolCalls =
                 [k \in DOMAIN h.pendingToolCalls \cup {callID} |->
                     IF k = callID
                     THEN [tool |-> Field(props, "tool"), startedAt |-> t,
                           args |-> Field(props, "args")]
                     ELSE h.pendingToolCalls[k]]]

onToolExecuteBefore(h, props, t) ==
    LET callID == Field(props, "callID")
    IN  [h EXCEPT !.pendingToolCalls =
            [k \in DOMAIN h.pendingToolCalls \cup {callID} |->
                IF k = callID
                THEN [tool |-> Field(props, "tool"), startedAt |-> t, args |-> Field(props, "args")]
                ELSE h.pendingToolCalls[k]]]

\* a duration that falls back to the wall clock when no record is pending
toolDurationSinceEpoch(h, callID, t) ==
    IF callID \in DOMAIN h.pendingToolCalls THEN t - h.pendingToolCalls[callID].startedAt ELSE t

\* a duration with the operands of the subtraction exchanged
toolDurationReversed(h, callID, t) ==
    IF callID \in DOMAIN h.pendingToolCalls THEN h.pendingToolCalls[callID].startedAt - t ELSE 0

\* pending ? Date.now() - pending.startedAt : 0
toolDuration(h, callID, t) ==
    IF callID \in DOMAIN h.pendingToolCalls THEN t - h.pendingToolCalls[callID].startedAt ELSE 0

\* a handler that leaves the pending record in place
deletePendingKeeps(h, callID) == h

\* state.pendingToolCalls.delete(callID)
deletePending(h, callID) ==
    [h EXCEPT !.pendingToolCalls = [k \in DOMAIN h.pendingToolCalls \ {callID} |-> h.pendingToolCalls[k]]]

\* a success flag that does not look at the output
toolSuccessAlways(output) == TRUE

\* !output?.includes("Error"), where it does not throw
toolSuccess(output) ==
    IF Nullish(output) THEN TRUE
    ELSE IF output.t = "text" THEN ~Includes(output.c, ERROR)
    ELSE ~(\E i \in 1..Len(output.a) : output.a[i] = Text(ERROR))

onToolExecuteAfter(h, props, t) ==
    LET tool == Field(props, "tool")
        sessionID == Field(props, "sessionID")
        callID == Field(props, "callID")
        args == Field(props, "args")
        output == Field(props, "output")
        durationMs == toolDuration(h, callID, t)
        h1 == deletePending(h, callID)
        cmd == Field(args, "command")
        isCmd == tool = Str("bash") /\ cmd.t = "text"
        h2 == IF isCmd /\ matchesGitCommit(cmd.c)
              THEN counterAdd(h1, "commit.count", Num(1), commonAttributes(h1, sessionID))
              ELSE h1
        h3 == IF isCmd /\ (matchesGhPrCreate(cmd.c) \/ matchesGitPushPr(cmd.c))
              THEN counterAdd(h2, "pull_request.count", Num(1), commonAttributes(h2, sessionID))
              ELSE h2
        lines == splitLines(IF output.t = "text" THEN output.c ELSE <<>>)
        h4 == IF tool \in {Str("write"), Str("edit")} /\ lines > 0
              THEN counterAdd(h3, "lines_of_code.count", Num(lines),
                              Spread(commonAttributes(h3, sessionID),
                                     "type" :> Str(IF tool = Str("write") THEN "added" ELSE "modified")))
              ELSE h3
        base == ("tool_name" :> IF h.config.logToolDetails THEN tool ELSE Str("redacted"))
                    @@ ("duration_ms" :> Num(durationMs))
                    @@ ("success" :> Bool(toolSuccess(output)))
        toolPayload ==
            IF h.config.logToolDetails
            THEN Spread(base,
                    ("tool_args" :> Text(slice0(jsonStringify(Coalesce(args, Obj(EmptyObj))), MaxToolArgs)))
                    @@ ("tool_result_size_bytes" :>
                            Num(IF output.t = "text" THEN Len(output.c) ELSE 0)))
            ELSE base
    IN  IF ~(Nullish(output) \/ output.t \in {"text", "arr"}) THEN throw(h4)
        ELSE emitWithEventAttributes(h4, "tool_result", sessionID, toolPayload, t)

(***************************************************************************)
(* Chat message (user prompt) and the /otel command.                       *)
(***************************************************************************)
\* randomUUID(): the k-th identifier drawn differs from all drawn before
randomUUID(k) == Str("uuid-" \o Dec(k + 1))

\* a clean-up that trims and leaves the quotes
cleanPromptKeepsQuotes(c) == trim(c)

\* promptText.trim().replace(/^"(.*)"$/s, "$1")
cleanPrompt(c) ==
    LET tr == trim(c)
    IN  IF Len(tr) >= 2 /\ tr[1] = "\"" /\ tr[Len(tr)] = "\""
        THEN SubSeq(tr, 2, Len(tr) - 1) ELSE tr

RECURSIVE textsOf(_)
textsOf(a) ==
    IF a = <<>> THEN <<>>
    ELSE IF Field(Head(a), "type") = Str("text") /\ Truthy(Field(Head(a), "text"))
    THEN <<Field(Head(a), "text")>> \o textsOf(Tail(a))
    ELSE textsOf(Tail(a))

onChatMessage(h, props, t) ==
    LET sessionID == Field(props, "sessionID")
        agent == Field(props, "agent")
        model == Field(props, "model")
        parts == Field(props, "parts")
        bad == parts.t # "arr" \/ \E i \in 1..Len(parts.a) : Nullish(parts.a[i])
        promptText == cleanPrompt(joinLines(textsOf(parts.a)))
        h1 == [h EXCEPT !.promptId = randomUUID(h.uuidsDrawn), !.uuidsDrawn = @ + 1]
        p1 == "prompt_length" :> Num(Len(promptText))
        p2 == IF Truthy(agent) THEN Spread(p1, "agent" :> agent) ELSE p1
        p3 == IF Truthy(model)
              THEN Spread(p2, ("model.provider" :> Field(model, "providerID"))
                              @@ ("model.id" :> Field(model, "modelID")))
              ELSE p2
        payload == IF h.config.logUserPrompts
                   THEN Spread(p3, "prompt" :> Text(slice0(promptText, MaxPrompt))) ELSE p3
    IN  IF bad THEN throw(h)
        ELSE emitWithEventAttributes(h1, "user_prompt", sessionID, payload, t)

OTEL_COMMAND_NAME == Str("otel")
ON == <<"o", "n">>
OFF == <<"o", "f", "f">>

\* a command that inverts the flag whatever its argument
toggledIgnoresArgument(was, arg) == ~was

\* the flag after an /otel command with the (trimmed, lower-cased) argument
toggled(was, arg) == IF arg = ON THEN TRUE ELSE IF arg = OFF THEN FALSE ELSE ~was

\* a command handler that does not look at the command's name
handleCommandBeforeAnyName(h, props) ==
    LET en == toggled(h.enabled, toLowerCase(trim(Field(props, "arguments").c)))
    IN  [emitEvent([h EXCEPT !.enabled = en], prefixed(h, "telemetry.toggled"),
                   "telemetry.toggled", "telemetry.enabled" :> Bool(en))
            EXCEPT !.result = Obj("otelToggled" :> Obj("enabled" :> Bool(en)))]

handleCommandBefore(h, props) ==
    LET arguments == Field(props, "arguments")
        en == toggled(h.enabled, toLowerCase(trim(arguments.c)))
        h1 == [h EXCEPT !.enabled = en]
        h2 == emitEvent(h1, prefixed(h1, "telemetry.toggled"), "telemetry.toggled",
                        "telemetry.enabled" :> Bool(en))
    IN  IF Nullish(props) THEN throw(h)
        ELSE IF Field(props, "command") # OTEL_COMMAND_NAME THEN h
        ELSE IF arguments.t # "text" THEN throw(h)
        ELSE [h2 EXCEPT !.result = Obj("otelToggled" :> Obj("enabled" :> Bool(en)))]

(***************************************************************************)
(* The dispatcher.                                                         *)
(***************************************************************************)
\* a dispatcher whose early return tests the flag the wrong way round
skippedWhenEnabled(h) == h.enabled

\* a dispatcher without the early return
skippedNever(h) == FALSE

\* if (!state.enabled) return
skipped(h) == ~h.enabled

\* a default case that takes a sequence number for the event it drops
onUnknownCounts(h) == nextSequence(h)

\* default: break
onUnknown(h) == h

\* switch (event.type), on props = event.properties ?? {}
dispatch(h, ev, t) ==
    LET props == Coalesce(ev.properties, Obj(EmptyObj))
    IN  CASE ev.type = "session.created" -> onSessionCreated(h, props, t)
          [] ev.type = "session.idle" -> onSessionIdle(h, props, t)
          [] ev.type = "session.status" -> onSessionStatus(h, props, t)
          [] ev.type = "file.edited" -> onFileEdited(h, props)
          [] ev.type = "message.part.updated" -> onMessagePartUpdated(h, props, t)
          [] ev.type = "message.updated" -> onMessageUpdated(h, props, t)
          [] ev.type = "session.error" -> onSessionError(h, props, t)
          [] ev.type = "permission.replied" -> onPermissionReplied(h, props)
          [] ev.type = "session.diff" -> onSessionDiff(h, props)
          [] ev.type = "tool.execute.before" -> onToolExecuteBefore(h, props, t)
          [] ev.type = "tool.execute.after" -> onToolExecuteAfter(h, props, t)
          [] ev.type = "chat.message" -> onChatMessage(h, props, t)
          [] OTHER -> onUnknown(h)

\* a dispatcher that tests the enabled flag before it looks for the command
handleEventGated(h, ev, t) ==
    IF skipped(h) THEN h
    ELSE IF ev.type = "command.execute.before" THEN handleCommandBefore(h, ev.properties)
    ELSE dispatch(h, ev, t)

handleEvent(h, ev, t) ==
    IF ev.type = "command.execute.before" THEN handleCommandBefore(h, ev.properties)
    ELSE IF skipped(h) THEN h
    ELSE dispatch(h, ev, t)

(***************************************************************************)
(* Startup: createHookState, and the plugin function of index.ts, which    *)
(* emits plugin.started before it registers the hooks. The test harness    *)
(* (test/helpers.ts) builds the same state without that event.             *)
(***************************************************************************)
DefaultConfig ==
    [telemetryProfile |-> "opencode", logUserPrompts |-> FALSE, logToolDetails |-> FALSE,
     includeSessionId |-> TRUE, includeVersion |-> FALSE,
     metricsExporter |-> "otlp", logsExporter |-> "otlp", protocol |-> "grpc",
     endpoint |-> "http://localhost:4317"]

Configs ==
    {DefaultConfig,
     [DefaultConfig EXCEPT !.telemetryProfile = "claude-code", !.logUserPrompts = TRUE,
                           !.logToolDetails = TRUE, !.includeSessionId = FALSE]}

pluginStarted(cfg) ==
    [body |-> initTelemetry(cfg).prefix \o ".plugin.started",
     attributes |->
        ("event.name" :> Str("plugin.started"))
        @@ ("plugin.name" :> Str("opencode-otel"))
        @@ ("plugin.version" :> Str("0.2.0"))
        @@ ("otel.metrics_exporter" :> Str(cfg.metricsExporter))
        @@ ("otel.logs_exporter" :> Str(cfg.logsExporter))
        @@ ("otel.protocol" :> Str(cfg.protocol))
        @@ ("otel.endpoint" :> Str(cfg.endpoint))]

createHookState ==
    /\ sessions = EmptyObj
    /\ pendingToolCalls = EmptyObj
    /\ emittedMessageIds = {}
    /\ eventSequence = 0
    /\ enabled = TRUE
    /\ promptId = Undef

Init ==
    /\ config \in Configs
    /\ telemetry = initTelemetry(config)
    /\ createHookState
    /\ now = 0
    /\ uuidsDrawn = 0
    /\ events \in {<<>>, <<pluginStarted(config)>>}
    /\ metrics = <<>>
    /\ hist = <<>>
    /\ encoded = <<>>

(***************************************************************************)
(* One delivered event: a hook of index.ts (or the harness's emit) calls   *)
(* handleEvent; whatever the handler did before a throw stays done.        *)
(***************************************************************************)
HookState ==
    [config |-> config, telemetry |-> telemetry, sessions |-> sessions,
     pendingToolCalls |-> pendingToolCalls, emittedMessageIds |-> emittedMessageIds,
     eventSequence |-> eventSequence, enabled |-> enabled, promptId |-> promptId,
     uuidsDrawn |-> uuidsDrawn,
     logs |-> <<>>, adds |-> <<>>, threw |-> FALSE, escaped |-> FALSE, result |-> Undef]

\* the fields of the hook state an event can change
Fields(h) ==
    [sessions |-> h.sessions, pendingToolCalls |-> h.pendingToolCalls,
     emittedMessageIds |-> h.emittedMessageIds, eventSequence |-> h.eventSequence,
     enabled |-> h.enabled, promptId |-> h.promptId]

\* the budget of a behaviour: delivered events and clock ticks
CanStep == Len(hist) + now < MaxSteps

\* the run started in the plugin function of index.ts (not in the test harness)
ViaPlugin == events # <<>> /\ Head(events) = pluginStarted(config)

\* an error handler that throws the exception on to the host
onErrorRethrows(r) == [r EXCEPT !.escaped = TRUE]

\* onError(hook, e, extra): log.error of the message; the exception ends here
onError(r) == r

\* a hook of index.ts: try { handleEvent(state, event) } catch (e) { onError(..., e) }
hook(r) == IF r.threw THEN onError(r) ELSE r

\* emit of the test harness: handleEvent(state, event), an exception goes to
\* the calling test
emit(r) == [r EXCEPT !.escaped = r.threw]

\* an exception that left a hook of the plugin ends the delivery of events
Halted == ViaPlugin /\ \E i \in 1..Len(hist) : hist[i].escaped

Deliver(ev) ==
    /\ ~Halted
    /\ \E r0 \in {handleEvent(HookState, ev, now)} :
       \E r \in {IF ViaPlugin THEN hook(r0) ELSE emit(r0)} :
           /\ sessions' = r.sessions
           /\ pendingToolCalls' = r.pendingToolCalls
           /\ emittedMessageIds' = r.emittedMessageIds
           /\ eventSequence' = r.eventSequence
           /\ enabled' = r.enabled
           /\ promptId' = r.promptId
           /\ uuidsDrawn' = r.uuidsDrawn
           /\ events' = events \o r.logs
           /\ metrics' = metrics \o r.adds
           /\ hist' = Append(hist, [ev |-> ev, at |-> now, before |-> Fields(HookState),
                                    after |-> Fields(r), logs |-> r.logs, adds |-> r.adds,
                                    threw |-> r.threw, escaped |-> r.escaped,
                                    result |-> r.result])
    /\ UNCHANGED <<config, telemetry, now, encoded>>

\* time passes between two events
Tick ==
    /\ CanStep
    /\ now < MaxTime
    /\ now' = now + 1
    /\ UNCHANGED <<config, telemetry, sessions, pendingToolCalls, emittedMessageIds,
                   eventSequence, enabled, promptId, uuidsDrawn, events, metrics, hist,
                   encoded>>

(***************************************************************************)
(* The payloads the host delivers in this model.                           *)
(***************************************************************************)
S1 == Str("s1")
S2 == Str("s2")
HELLO == <<"H", "e", "l", "l", "o">>
WORLD == <<"W", "o", "r", "l", "d">>
GITCOMMIT == GIT \o <<" ">> \o COMMIT

CommandInputs ==
    {Obj(("command" :> OTEL_COMMAND_NAME) @@ ("arguments" :> Text(a))) :
        a \in {<<" ", "O", "n", " ">>, OFF, <<>>}}
    \cup {Obj(("command" :> Str("help")) @@ ("arguments" :> Text(<<>>)))}

SessionCreatedInputs ==
    {Obj("info" :> Obj(("id" :> S1) @@ ("title" :> Str("T")))),
     Obj("id" :> S2),
     Obj(EmptyObj)}

SessionIdleInputs == {Obj("sessionID" :> S1)}

SessionStatusInputs == {Obj("sessionID" :> S1)}

FileEditedInputs == {Obj(("linesAdded" :> Num(2)) @@ ("added" :> Num(5)) @@ ("removed" :> Num(-1)))}

ApiError ==
    Obj(("name" :> Str("APIError"))
        @@ ("data" :> Obj(("message" :> Str("overloaded")) @@ ("statusCode" :> Num(529))
                          @@ ("isRetryable" :> Bool(TRUE)))))

MessagePartInputs ==
    {Obj("part" :> Obj(("type" :> Str("retry")) @@ ("sessionID" :> S1)
                       @@ ("attempt" :> Num(1)) @@ ("error" :> ApiError)))}

Tokens ==
    Obj(("input" :> Num(100)) @@ ("output" :> Num(50)) @@ ("reasoning" :> Num(0))
        @@ ("cache" :> Obj(("read" :> Num(0)) @@ ("write" :> Num(7)))))

Assistant(id, cost) ==
    ("id" :> Str(id)) @@ ("sessionID" :> S1) @@ ("role" :> Str("assistant"))
        @@ ("modelID" :> Str("claude-sonnet-4")) @@ ("cost" :> cost)
        @@ ("tokens" :> Tokens)

MessageUpdatedInputs ==
    {Obj("info" :> Obj(Assistant("m1", NumQ(1, 100))
                       @@ ("time" :> Obj(("created" :> Num(1000)) @@ ("completed" :> Num(2000)))))),
     Obj("info" :> Obj(Assistant("m1", NumQ(1, 100)) @@ ("time" :> Obj("created" :> Num(1000))))),
     Obj("info" :> Obj(Assistant("m2", Num(0)) @@ ("error" :> ApiError)
                       @@ ("time" :> Obj(("created" :> Num(1000)) @@ ("completed" :> Num(2000))))))}

SessionErrorInputs == {Obj(("sessionID" :> S1) @@ ("error" :> ApiError))}

PermissionInputs ==
    {Obj(("sessionID" :> S1) @@ ("permissionID" :> Str("p1")) @@ ("response" :> Str(r))) :
        r \in {"once"}}

SessionDiffInputs ==
    {Obj(("sessionID" :> S1)
         @@ ("diff" :> Arr(<<Obj(("additions" :> Num(2)) @@ ("deletions" :> Num(0))),
                            Obj("additions" :> Num(3))>>)))}

ToolBeforeInputs ==
    {Obj(("tool" :> Str("bash")) @@ ("sessionID" :> S1) @@ ("callID" :> Str("c1"))
         @@ ("args" :> Obj("command" :> Text(GITCOMMIT))))}

ToolAfterInputs ==
    {Obj(("tool" :> Str("bash")) @@ ("sessionID" :> S1) @@ ("callID" :> Str("c1"))
         @@ ("args" :> Obj("command" :> Text(GITCOMMIT))) @@ ("output" :> Text(HELLO))),
     Obj(("tool" :> Str("read")) @@ ("sessionID" :> S2) @@ ("callID" :> Str("c2"))
         @@ ("args" :> Obj("path" :> Text(<<"a">>)))
         @@ ("output" :> Text(ERROR \o <<":", " ", "x">>))),
     Obj(("tool" :> Str("write")) @@ ("sessionID" :> S1) @@ ("callID" :> Str("c1"))
         @@ ("output" :> Num(42)))}

ChatMessageInputs ==
    {Obj(("sessionID" :> S1) @@ ("agent" :> Str("build"))
         @@ ("parts" :> Arr(<<Obj(("type" :> Str("text")) @@ ("text" :> Text(HELLO))),
                             Obj("type" :> Str("image")),
                             Obj(("type" :> Str("text")) @@ ("text" :> Text(WORLD)))>>))),
     Obj(("sessionID" :> S2)
         @@ ("parts" :> Arr(<<Obj(("type" :> Str("text"))
                                  @@ ("text" :> Text(<<"\"", "h", "i", "\"", "\n">>)))>>))),
     Obj("sessionID" :> S1)}

(***************************************************************************)
(* The hooks.                                                              *)
(***************************************************************************)
CommandExecuteBefore ==
    \E p \in CommandInputs : CanStep /\ Deliver([type |-> "command.execute.before", properties |-> p])
SessionCreated ==
    \E p \in SessionCreatedInputs : CanStep /\ Deliver([type |-> "session.created", properties |-> p])
SessionIdle ==
    \E p \in SessionIdleInputs : CanStep /\ Deliver([type |-> "session.idle", properties |-> p])
SessionStatus ==
    \E p \in SessionStatusInputs : CanStep /\ Deliver([type |-> "session.status", properties |-> p])
FileEdited ==
    \E p \in FileEditedInputs : CanStep /\ Deliver([type |-> "file.edited", properties |-> p])
MessagePartUpdated ==
    \E p \in MessagePartInputs : CanStep /\ Deliver([type |-> "message.part.updated", properties |-> p])
MessageUpdated ==
    \E p \in MessageUpdatedInputs : CanStep /\ Deliver([type |-> "message.updated", properties |-> p])
SessionError ==
    \E p \in SessionErrorInputs : CanStep /\ Deliver([type |-> "session.error", properties |-> p])
PermissionReplied ==
    \E p \in PermissionInputs : CanStep /\ Deliver([type |-> "permission.replied", properties |-> p])
SessionDiff ==
    \E p \in SessionDiffInputs : CanStep /\ Deliver([type |-> "session.diff", properties |-> p])
ToolExecuteBefore ==
    \E p \in ToolBeforeInputs : CanStep /\ Deliver([type |-> "tool.execute.before", properties |-> p])
ToolExecuteAfter ==
    \E p \in ToolAfterInputs : CanStep /\ Deliver([type |-> "tool.execute.after", properties |-> p])
ChatMessage ==
    \E p \in ChatMessageInputs : CanStep /\ Deliver([type |-> "chat.message", properties |-> p])

Next ==
    \/ CommandExecuteBefore
    \/ SessionCreated
    \/ SessionIdle
    \/ SessionStatus
    \/ FileEdited
    \/ MessagePartUpdated
    \/ MessageUpdated
    \/ SessionError
    \/ PermissionReplied
    \/ SessionDiff
    \/ ToolExecuteBefore
    \/ ToolExecuteAfter
    \/ ChatMessage
    \/ Tick

Spec == Init /\ [][Next]_vars

(***************************************************************************)
(* A second specification for the size caps of the payloads: prompts and   *)
(* tool arguments around the caps (slice(0, 4096), slice(0, 2048)), among   *)
(* the ordinary chat, tool and command events.                             *)
(***************************************************************************)
Xs(n) == [i \in 1..n |-> "x"]

\* prompts of 4096 and 4097 characters, and one of 4097 inside quotes and
\* white space
LongChatInputs ==
    {Obj(("sessionID" :> S1)
         @@ ("parts" :> Arr(<<Obj(("type" :> Str("text")) @@ ("text" :> Text(c)))>>))) :
        c \in {Xs(MaxPrompt), Xs(MaxPrompt + 1),
               <<" ", "\"">> \o Xs(MaxPrompt + 1) \o <<"\"", "\n">>}}

\* arguments whose JSON text {"path":"x...x"} has 2048 and 2049 characters
LongToolAfterInputs ==
    {Obj(("tool" :> Str("read")) @@ ("sessionID" :> S1) @@ ("callID" :> Str("c1"))
         @@ ("args" :> Obj("path" :> Text(Xs(n)))) @@ ("output" :> Text(HELLO))) :
        n \in {MaxToolArgs - 11, MaxToolArgs - 10}}

LongChatMessage ==
    \E p \in LongChatInputs : CanStep /\ Deliver([type |-> "chat.message", properties |-> p])
LongToolExecuteAfter ==
    \E p \in LongToolAfterInputs : CanStep /\ Deliver([type |-> "tool.execute.after", properties |-> p])

\* text parts that are empty or have no text, between and around others
ChatMessageEmptyParts ==
    \E a \in {<<Obj(("type" :> Str("text")) @@ ("text" :> Text(<<"a">>))),
                Obj(("type" :> Str("text")) @@ ("text" :> Text(<<>>))),
                Obj(("type" :> Str("text")) @@ ("text" :> Text(<<"b">>)))>>,
              <<Obj("type" :> Str("text")),
                Obj(("type" :> Str("text")) @@ ("text" :> Text(<<"\"", "q", "\"", "\"", " ">>))),
                Obj(("type" :> Str("file")) @@ ("text" :> Text(<<"f">>)))>>} :
        CanStep /\ Deliver([type |-> "chat.message",
                            properties |-> Obj(("sessionID" :> S1) @@ ("parts" :> Arr(a)))])

NextLongText ==
    \/ LongChatMessage
    \/ LongToolExecuteAfter
    \/ ChatMessage
    \/ ToolExecuteBefore
    \/ ToolExecuteAfter
    \/ CommandExecuteBefore

SpecLongText == Init /\ [][NextLongText]_vars

(***************************************************************************)
(* The payload encoder on its own: the expression                          *)
(*   telemetry.profile === "claude-code" ? stringifyNumericAttrs(p) : p    *)
(* applied, for a context of either profile, to attribute sets of strings, *)
(* booleans, whole and fractional numbers, and to its own results.         *)
(***************************************************************************)
Encode ==
    \E p \in DOMAIN PROFILES :
    \E attrs \in {"tool_name" :> Str("bash"),
                  "success" :> Bool(FALSE),
                  ("prompt" :> Text(<<"5">>)) @@ ("success" :> Bool(TRUE)),
                  "duration_ms" :> Num(5),
                  ("cost_usd" :> NumQ(1, 100)) @@ ("speed" :> Str("normal")),
                  ("attempt" :> Num(0)) @@ ("error.is_retryable" :> Bool(TRUE))}
                    \cup {encoded[k].out : k \in 1..Len(encoded)} :
        /\ Len(encoded) < MaxSteps
        /\ encoded' = Append(encoded,
                [profile |-> p, attrs |-> attrs,
                 out |-> encodePayload([telemetry |-> [prefix |-> PROFILES[p].prefix,
                                                       profile |-> p]], attrs)])
        /\ UNCHANGED <<config, telemetry, sessions, pendingToolCalls, emittedMessageIds,
                       eventSequence, enabled, promptId, now, uuidsDrawn, events, metrics,
                       hist>>

SpecEncode == Init /\ [][Encode]_vars

(***************************************************************************)
(* Longer runs of few events: a tool call whose before is delivered more   *)
(* than once, and a session that is created, goes idle and reports status  *)
(* several times, over two more steps than the other specifications take.  *)
(***************************************************************************)
CanStepLongRun == Len(hist) + now < MaxSteps + 2

LongRunEvent ==
    \E ev \in {[type |-> "tool.execute.before",
                properties |-> Obj(("tool" :> Str("bash")) @@ ("sessionID" :> S1)
                                   @@ ("callID" :> Str("c1"))
                                   @@ ("args" :> Obj("command" :> Text(GITCOMMIT))))],
               [type |-> "tool.execute.before",
                properties |-> Obj(("tool" :> Str("read")) @@ ("sessionID" :> S1)
                                   @@ ("callID" :> Str("c1")))],
               [type |-> "tool.execute.after",
                properties |-> Obj(("tool" :> Str("read")) @@ ("sessionID" :> S1)
                                   @@ ("callID" :> Str("c1")) @@ ("output" :> Text(HELLO)))],
               [type |-> "session.created", properties |-> Obj("info" :> Obj("id" :> S1))],
               [type |-> "session.idle", properties |-> Obj("sessionID" :> S1)],
               [type |-> "session.status", properties |-> Obj("sessionID" :> S1)]} :
        CanStepLongRun /\ Deliver(ev)

LongRunTick ==
    /\ CanStepLongRun
    /\ now < MaxTime
    /\ now' = now + 1
    /\ UNCHANGED <<config, telemetry, sessions, pendingToolCalls, emittedMessageIds,
                   eventSequence, enabled, promptId, uuidsDrawn, events, metrics, hist,
                   encoded>>

NextLongRun ==
    \/ LongRunEvent
    \/ LongRunTick

SpecLongRun == Init /\ [][NextLongRun]_vars

(***************************************************************************)
(* Prompts of two sessions: a chat.message and a tool.execute.after for    *)
(* each of two session ids.                                                *)
(***************************************************************************)
TwoSessionsEvent ==
    \E s \in {S1, S2} :
        \E ev \in {[type |-> "chat.message",
                    properties |-> Obj(("sessionID" :> s)
                                       @@ ("parts" :> Arr(<<Obj(("type" :> Str("text"))
                                                            @@ ("text" :> Text(HELLO)))>>)))],
                   [type |-> "tool.execute.after",
                    properties |-> Obj(("tool" :> Str("read")) @@ ("sessionID" :> s)
                                       @@ ("callID" :> Str("c1"))
                                       @@ ("output" :> Text(HELLO)))]} :
            CanStep /\ Deliver(ev)

SpecTwoSessions == Init /\ [][TwoSessionsEvent]_vars

(***************************************************************************)
(* Switching off and on again: the bare /otel command, which inverts the   *)
(* flag, and the events whose handlers register something (a session, a    *)
(* pending call, a message id, a prompt) with the events that look the     *)
(* registration up, over runs as long as those above.                      *)
(***************************************************************************)
OffAndOnEvent ==
    \E ev \in {[type |-> "command.execute.before",
                properties |-> Obj(("command" :> OTEL_COMMAND_NAME)
                                   @@ ("arguments" :> Text(<<>>)))],
               [type |-> "tool.execute.before",
                properties |-> Obj(("tool" :> Str("read")) @@ ("sessionID" :> S1)
                                   @@ ("callID" :> Str("c1")))],
               [type |-> "tool.execute.after",
                properties |-> Obj(("tool" :> Str("read")) @@ ("sessionID" :> S1)
                                   @@ ("callID" :> Str("c1")) @@ ("output" :> Text(HELLO)))],
               [type |-> "session.created", properties |-> Obj("info" :> Obj("id" :> S1))],
               [type |-> "session.idle", properties |-> Obj("sessionID" :> S1)],
               [type |-> "message.updated",
                properties |-> Obj("info" :> Obj(Assistant("m1", NumQ(1, 100))
                                   @@ ("time" :> Obj(("created" :> Num(1000))
                                                     @@ ("completed" :> Num(2000))))))],
               [type |-> "chat.message",
                properties |-> Obj(("sessionID" :> S1)
                                   @@ ("parts" :> Arr(<<Obj(("type" :> Str("text"))
                                                        @@ ("text" :> Text(HELLO)))>>)))]} :
        CanStepLongRun /\ Deliver(ev)

NextOffAndOn ==
    \/ OffAndOnEvent
    \/ LongRunTick

SpecOffAndOn == Init /\ [][NextOffAndOn]_vars

(***************************************************************************)
(* The chat messages alone: the prompts of the first specification, the    *)
(* long ones and the ones with empty text parts.                           *)
(***************************************************************************)
NextChat ==
    \/ ChatMessage
    \/ LongChatMessage
    \/ ChatMessageEmptyParts

SpecChat == Init /\ [][NextChat]_vars

(***************************************************************************)
(* A third specification for the session registry: session events in      *)
(* every form of the session id, events of kinds the switch does not know, *)
(* the /otel command and the clock.                                        *)
(***************************************************************************)
\* session.idle with the id as info.id, as id and as sessionID ("s9" is never
\* registered), and with no id
SessionIdleAnyForm ==
    \E p \in {Obj("info" :> Obj("id" :> S1)), Obj("id" :> S2),
              Obj("sessionID" :> Str("s9")), Obj(EmptyObj)} :
        CanStep /\ Deliver([type |-> "session.idle", properties |-> p])

\* events of kinds the switch has no case for
UnknownEvent ==
    \E ev \in {[type |-> "unknown.event.type", properties |-> Obj("foo" :> Str("bar"))],
               [type |-> "session.deleted", properties |-> Obj("info" :> Obj("id" :> S1))],
               [type |-> "server.connected", properties |-> Undef]} :
        CanStep /\ Deliver(ev)

NextSessions ==
    \/ SessionCreated
    \/ SessionIdleAnyForm
    \/ SessionStatus
    \/ UnknownEvent
    \/ CommandExecuteBefore
    \/ Tick

SpecSessions == Init /\ [][NextSessions]_vars

(***************************************************************************)
(* A fourth specification for the de-duplication of messages: the          *)
(* message.updated events of the first specification among updates of the  *)
(* same message that lack the token usage, the completion time or the      *)
(* whole time object, and a user's message with the same id.               *)
(***************************************************************************)
MessageUpdatedPartial ==
    \E info \in {[k \in DOMAIN Assistant("m1", Num(0)) \ {"tokens"} |-> Assistant("m1", Num(0))[k]]
                      @@ ("time" :> Obj(("created" :> Num(1000)) @@ ("completed" :> Num(2000)))),
                  Assistant("m1", NumQ(1, 100)),
                  Assistant("m2", Num(0)) @@ ("error" :> ApiError) @@ ("time" :> Obj(EmptyObj)),
                  ("id" :> Str("m1")) @@ ("sessionID" :> S1) @@ ("role" :> Str("user"))} :
        CanStep /\ Deliver([type |-> "message.updated", properties |-> Obj("info" :> Obj(info))])

\* message parts: a retry with its error, a retry given as the properties
\* themselves and without error or attempt, a step-finish with tokens and cost,
\* and a text
MessagePartUpdatedAnyType ==
    \E p \in {Obj("part" :> Obj(("type" :> Str("retry")) @@ ("sessionID" :> S1)
                                @@ ("attempt" :> Num(2)) @@ ("error" :> ApiError))),
              Obj(("type" :> Str("retry")) @@ ("sessionID" :> S2)),
              Obj("part" :> Obj(("type" :> Str("step-finish")) @@ ("sessionID" :> S1)
                                @@ ("messageID" :> Str("m1")) @@ ("cost" :> NumQ(1, 100))
                                @@ ("tokens" :> Tokens))),
              Obj("part" :> Obj(("type" :> Str("text")) @@ ("text" :> Text(HELLO))))} :
        CanStep /\ Deliver([type |-> "message.part.updated", properties |-> p])

\* a completed assistant message whose usage has a negative and a zero token
\* count and a negative cost
MessageUpdatedSigned ==
    \E tokens \in {Obj(("input" :> Num(-5)) @@ ("output" :> Num(0))
                       @@ ("cache" :> Obj(("read" :> Num(3)) @@ ("write" :> Num(0))))),
                   Obj(("input" :> Num(0)) @@ ("output" :> Num(0)))} :
        CanStep /\ Deliver([type |-> "message.updated",
                            properties |-> Obj("info" :> Obj(
                                ("id" :> Str("m3")) @@ ("sessionID" :> S1)
                                @@ ("role" :> Str("assistant")) @@ ("cost" :> NumQ(-1, 100))
                                @@ ("tokens" :> tokens)
                                @@ ("time" :> Obj(("created" :> Num(1000))
                                                  @@ ("completed" :> Num(2000))))))])

NextMessages ==
    \/ MessageUpdated
    \/ MessageUpdatedPartial
    \/ MessagePartUpdatedAnyType
    \/ MessageUpdatedSigned

SpecMessages == Init /\ [][NextMessages]_vars

(***************************************************************************)
(* A fifth specification for the tool handler: shell commands around the   *)
(* commit and pull-request patterns, a command given to another tool, a    *)
(* shell call without a command, and outputs with and without "Error".     *)
(***************************************************************************)
ToolExecuteAfterShell ==
    \E x \in {<<"bash", GH \o <<" ">> \o PR \o <<" ">> \o CREATE, Text(ERROR)>>,
              <<"bash", GITCOMMIT \o <<";">> \o GH \o <<" ">> \o <<" ">> \o PR \o <<"\t">> \o CREATE,
                Text(<<"a", "n", " ">> \o ERROR \o <<"!">>)>>,
              <<"bash", GIT \o <<" ">> \o PUSH \o <<" ">> \o DASHES \o <<"o">> \o <<" ">> \o PULLREQUEST, Undef>>,
              <<"bash", GIT \o <<" ">> \o PUSH \o <<"\n">> \o DASHES \o PULLREQUEST,
                Text(<<"e", "r", "r", "o", "r">>)>>,
              <<"bash", GIT \o <<" ">> \o COMMIT \o <<"s">>, Text(<<"E", "r", "r">>)>>,
              <<"bash", <<"x">> \o GITCOMMIT, Text(<<>>)>>,
              <<"edit", GITCOMMIT \o <<" ">> \o GH \o <<" ">> \o PR \o <<" ">> \o CREATE, Text(HELLO)>>} :
        CanStep /\ Deliver([type |-> "tool.execute.after",
                            properties |-> Obj(("tool" :> Str(x[1])) @@ ("sessionID" :> S1)
                                               @@ ("callID" :> Str("c1"))
                                               @@ ("args" :> Obj("command" :> Text(x[2])))
                                               @@ ("output" :> x[3]))])
ToolExecuteAfterNoCommand ==
    \E args \in {Undef, Null, Obj(EmptyObj), Obj("path" :> Text(GITCOMMIT)), Text(GITCOMMIT)} :
        CanStep /\ Deliver([type |-> "tool.execute.after",
                            properties |-> Obj(("tool" :> Str("bash")) @@ ("sessionID" :> S1)
                                               @@ ("callID" :> Str("c1")) @@ ("args" :> args))])

NextTools ==
    \/ ToolExecuteBefore
    \/ ToolExecuteAfter
    \/ ToolExecuteAfterShell
    \/ ToolExecuteAfterNoCommand
    \/ CommandExecuteBefore

SpecTools == Init /\ [][NextTools]_vars

(***************************************************************************)
(* Reading the sinks and the history.                                      *)
(***************************************************************************)
Steps == 1..Len(hist)
Has(e, k) == k \in DOMAIN e.attributes
NameOf(e) == e.attributes["event.name"].s
Named(logs, name) == SelectSeq(logs, LAMBDA e : NameOf(e) = name)
Counted(adds, counter) == SelectSeq(adds, LAMBDA a : a.name = telemetry.prefix \o "." \o counter)
IsCommand(i) == hist[i].ev.type = "command.execute.before"
PropsOf(i) == Coalesce(hist[i].ev.properties, Obj(EmptyObj))
\* a numeric attribute with value n, in its native or its string form
IsNumber(v, n) == v = Num(n) \/ v = Str(Dec(n))

(***************************************************************************)
(* C1: for every message id m, once a message.updated of an assistant      *)
(* message m with token usage and a completion timestamp has been handled  *)
(* while enabled, exactly one api_request log event and one set of         *)
(* token.usage / cost.usage increments (one per token field that is not    *)
(* zero, one for a cost above zero) has been emitted for m, however often  *)
(* the event is redelivered: the first such delivery emits them, a later   *)
(* one emits nothing.                                                      *)
(***************************************************************************)
Qualifies(i) ==
    LET msg == Field(PropsOf(i), "info")
    IN  /\ hist[i].ev.type = "message.updated"
        /\ hist[i].before.enabled
        /\ Field(msg, "role") = Str("assistant")
        /\ Truthy(Field(msg, "tokens"))
        /\ Field(Field(msg, "time"), "completed").t # "undefined"
MessageIdOf(i) == Field(Field(PropsOf(i), "info"), "id")
\* the token fields of the message that are not zero, and whether it has a cost
TokenFields(i) ==
    LET tokens == Field(Field(PropsOf(i), "info"), "tokens")
    IN  Cardinality({f \in {"input", "output"} : Truthy(Field(tokens, f))})
        + Cardinality({f \in {"read", "write"} : Truthy(Field(Field(tokens, "cache"), f))})
\* 1 when the message has a cost to report (a number above zero), else 0
CostFields(i) ==
    LET cost == Field(Field(PropsOf(i), "info"), "cost")
    IN  IF cost.t = "num" /\ cost.n > 0 THEN 1 ELSE 0
C1_EmittedExactlyOnce ==
    \A i \in Steps :
        Qualifies(i) =>
            IF \E j \in 1..(i - 1) : Qualifies(j) /\ MessageIdOf(j) = MessageIdOf(i)
            THEN hist[i].logs = <<>> /\ hist[i].adds = <<>>
            ELSE /\ Len(Named(hist[i].logs, "api_request")) = 1
                 /\ Len(Counted(hist[i].adds, "token.usage")) = TokenFields(i)
                 /\ Len(Counted(hist[i].adds, "cost.usage")) = CostFields(i)
                 /\ Len(hist[i].adds) = TokenFields(i) + CostFields(i)
C1_Witness ==
    \E i, j \in Steps :
        /\ i < j /\ Qualifies(i) /\ Qualifies(j) /\ MessageIdOf(i) = MessageIdOf(j)
        /\ Len(Named(hist[i].logs, "api_request")) = 1

(***************************************************************************)
(* C2: an event other than the command, handled while the enabled flag is  *)
(* false, increments no counter and emits no log event; the only log       *)
(* event emitted while disabled is telemetry.toggled.                       *)
(***************************************************************************)
C2_SilentWhileDisabled ==
    \A i \in Steps :
        ~hist[i].before.enabled =>
            /\ ~IsCommand(i) => hist[i].logs = <<>> /\ hist[i].adds = <<>>
            /\ hist[i].adds = <<>>
            /\ \A k \in 1..Len(hist[i].logs) : NameOf(hist[i].logs[k]) = "telemetry.toggled"
C2_Witness ==
    \E i, j \in Steps :
        /\ ~hist[i].before.enabled /\ hist[i].ev.type = "session.created"
        /\ Truthy(Field(PropsOf(i), "id"))
        /\ ~hist[j].before.enabled /\ IsCommand(j) /\ hist[j].logs # <<>>

(***************************************************************************)
(* C3: across all log events of the process, in emission order, each log   *)
(* event's event.sequence is exactly one more than that of the log event   *)
(* emitted immediately before it.                                          *)
(***************************************************************************)
SequenceOf(e) == e.attributes["event.sequence"]
C3_SequenceWithoutGaps ==
    \A k \in 1..(Len(events) - 1) :
        /\ Has(events[k], "event.sequence") /\ Has(events[k + 1], "event.sequence")
        /\ SequenceOf(events[k + 1]).n = SequenceOf(events[k]).n + 1

(***************************************************************************)
(* C4: the very first log event of the process carries event.sequence 0;   *)
(* in the claude-code profile a session.created emits no log event and     *)
(* consumes no sequence number.                                            *)
(***************************************************************************)
C4_FirstSequenceIsZero ==
    /\ events # <<>> => Has(events[1], "event.sequence") /\ SequenceOf(events[1]) = Num(0)
    /\ config.telemetryProfile = "claude-code" =>
            \A i \in Steps :
                hist[i].ev.type = "session.created" =>
                    /\ hist[i].logs = <<>>
                    /\ hist[i].after.eventSequence = hist[i].before.eventSequence

(***************************************************************************)
(* C5: the sequence counter equals the number of log events emitted so     *)
(* far, toggle events included, and every emitted log event carries an     *)
(* event.sequence attribute.                                               *)
(***************************************************************************)
C5_CounterCountsLogEvents ==
    /\ eventSequence = Len(events)
    /\ \A k \in 1..Len(events) : Has(events[k], "event.sequence")

(***************************************************************************)
(* C6: no log event emitted before the first handled chat.message carries  *)
(* prompt.id; each handled chat.message installs an id different from the  *)
(* previous one; every log event built afterwards carries exactly the id   *)
(* installed by the most recent handled chat.message. A chat.message is    *)
(* handled when it is delivered while enabled and does not throw.          *)
(***************************************************************************)
ChatHandled(i) ==
    hist[i].ev.type = "chat.message" /\ hist[i].before.enabled /\ ~hist[i].threw
LastOf(S) == CHOOSE j \in S : \A x \in S : x <= j
C6_PromptIdPropagates ==
    /\ \A i \in Steps : ChatHandled(i) =>
            /\ hist[i].after.promptId # hist[i].before.promptId
            /\ Truthy(hist[i].after.promptId)
    /\ \A i \in Steps : \A k \in 1..Len(hist[i].logs) :
            LET e == hist[i].logs[k]
                prior == {j \in 1..i : ChatHandled(j)}
            IN  IF prior = {} THEN ~Has(e, "prompt.id")
                ELSE Has(e, "prompt.id")
                     /\ e.attributes["prompt.id"] = hist[LastOf(prior)].after.promptId

(***************************************************************************)
(* C7: a tool.execute.after handled while enabled, with a text or absent   *)
(* output, whose call id has no pending record (no tool.execute.before     *)
(* came first, or an earlier after consumed the record) emits exactly one  *)
(* tool_result log event, with duration_ms 0, and does not throw.          *)
(***************************************************************************)
IsToolAfter(i) == hist[i].ev.type = "tool.execute.after" /\ hist[i].before.enabled
IsToolBefore(i) == hist[i].ev.type = "tool.execute.before" /\ hist[i].before.enabled
CallIdOf(i) == Field(PropsOf(i), "callID")
TextOrAbsent(v) == Nullish(v) \/ v.t = "text"
\* the tool.execute.before whose record step i finds pending, if there is one:
\* the latest before of the same call id with no after of it in between
Opened(i) ==
    {j \in 1..(i - 1) :
        /\ IsToolBefore(j) /\ CallIdOf(j) = CallIdOf(i)
        /\ \A x \in (j + 1)..(i - 1) :
                ~((IsToolAfter(x) \/ IsToolBefore(x)) /\ CallIdOf(x) = CallIdOf(i))}
C8_DurationIsElapsedTime ==
    \A i \in Steps : \A k \in 1..Len(hist[i].logs) :
        LET e == hist[i].logs[k]
            elapsed == IF Opened(i) = {} THEN 0 ELSE hist[i].at - hist[LastOf(Opened(i))].at
        IN  NameOf(e) = "tool_result" =>
                /\ elapsed >= 0
                /\ IsNumber(e.attributes["duration_ms"], elapsed)
C8_Witness ==
    \E i \in Steps : \E k \in 1..Len(hist[i].logs) :
        /\ NameOf(hist[i].logs[k]) = "tool_result"
        /\ Opened(i) # {}
        /\ hist[i].at - hist[LastOf(Opened(i))].at > 0

(***************************************************************************)
(* C9: after a tool.execute.before for call id c is handled while enabled, *)
(* c is in the pending registry; after a tool.execute.after for c is       *)
(* handled while enabled, c is not in it, whether it was there or not.     *)
(***************************************************************************)
C9_PendingRegistry ==
    \A i \in Steps :
        /\ IsToolBefore(i) => CallIdOf(i) \in DOMAIN hist[i].after.pendingToolCalls
        /\ IsToolAfter(i) => CallIdOf(i) \notin DOMAIN hist[i].after.pendingToolCalls
C9_Witness ==
    \E i, j \in Steps :
        /\ IsToolAfter(i) /\ CallIdOf(i) \in DOMAIN hist[i].before.pendingToolCalls
        /\ IsToolAfter(j) /\ CallIdOf(j) \notin DOMAIN hist[j].before.pendingToolCalls

(***************************************************************************)
(* C10: the otel command sets the flag to true for "on", to false for      *)
(* "off" (argument trimmed, case-insensitive) and inverts it for any other *)
(* argument, the empty one included; two argument-less toggles in a row    *)
(* restore the flag; the result reports the flag after the change.         *)
(***************************************************************************)
IsOtel(i) ==
    /\ IsCommand(i) /\ Field(PropsOf(i), "command") = Str("otel")
    /\ Field(PropsOf(i), "arguments").t = "text"
ArgOf(i) == Field(PropsOf(i), "arguments").c
SaysOn == {<<"o", "n">>, <<" ", "O", "n", " ">>}
SaysOff == {<<"o", "f", "f">>, <<"O", "F", "F", "\n">>}
C10_ToggleSetsFlag ==
    /\ \A i \in Steps : IsOtel(i) =>
            /\ hist[i].after.enabled =
                    (IF ArgOf(i) \in SaysOn THEN TRUE
                     ELSE IF ArgOf(i) \in SaysOff THEN FALSE
                     ELSE ~hist[i].before.enabled)
            /\ hist[i].result = Obj("otelToggled" :> Obj("enabled" :> Bool(hist[i].after.enabled)))
    /\ \A i \in Steps : (i + 1 \in Steps /\ IsOtel(i) /\ IsOtel(i + 1)) =>
            /\ (ArgOf(i) = <<>> /\ ArgOf(i + 1) = <<>>) =>
                    hist[i + 1].after.enabled = hist[i].before.enabled
            /\ (ArgOf(i) = ArgOf(i + 1) /\ ArgOf(i) \in SaysOn \cup SaysOff) =>
                    hist[i + 1].after.enabled = hist[i].after.enabled
C10_Witness ==
    \E i \in Steps :
        /\ i + 2 \in Steps /\ IsOtel(i) /\ IsOtel(i + 1) /\ IsOtel(i + 2)
        /\ ArgOf(i) = <<>> /\ ArgOf(i + 1) = <<>>
        /\ ArgOf(i + 2) = <<" ", "O", "n", " ">> /\ hist[i + 2].after.enabled
(***************************************************************************)
(* C11: the otel command is handled in every state, also while the flag is *)
(* false: each handled otel command emits exactly one telemetry.toggled    *)
(* log event whose telemetry.enabled is the flag after the change, and an  *)
(* "on" command leaves the flag true, so that the next event that always   *)
(* produces telemetry when handled (a session.created with an id, a        *)
(* tool.execute.after with a text output) produces it again.               *)
(***************************************************************************)
\* the id a session.created event names: info.id, else id
CreatedId(i) ==
    LET p == PropsOf(i)
    IN  IF ~Nullish(Field(Field(p, "info"), "id")) THEN Field(Field(p, "info"), "id")
        ELSE Field(p, "id")
AlwaysEmits(i) ==
    \/ hist[i].ev.type = "session.created" /\ Truthy(CreatedId(i))
    \/ hist[i].ev.type = "tool.execute.after" /\ Field(PropsOf(i), "output").t = "text"
C11_CommandAlwaysHandled ==
    \A i \in Steps : IsOtel(i) =>
        /\ Len(hist[i].logs) = 1
        /\ NameOf(hist[i].logs[1]) = "telemetry.toggled"
        /\ hist[i].logs[1].body = telemetry.prefix \o ".telemetry.toggled"
        /\ hist[i].logs[1].attributes["telemetry.enabled"] = Bool(hist[i].after.enabled)
        /\ ArgOf(i) \in SaysOn =>
                /\ hist[i].after.enabled
                /\ (i + 1 \in Steps /\ AlwaysEmits(i + 1)) =>
                        hist[i + 1].logs # <<>> \/ hist[i + 1].adds # <<>>
C11_Witness ==
    \E i \in Steps :
        /\ IsOtel(i) /\ ~hist[i].before.enabled /\ ArgOf(i) \in SaysOn
        /\ Len(hist[i].logs) = 1
        /\ i + 1 \in Steps /\ AlwaysEmits(i + 1) /\ hist[i + 1].logs # <<>>

(***************************************************************************)
(* C12: a command event whose command name is not "otel" changes neither   *)
(* the enabled flag nor any other field of the hook state, emits no log    *)
(* event (so no telemetry.toggled), increments no counter and returns no   *)
(* result.                                                                 *)
(***************************************************************************)
IsOtherCommand(i) ==
    /\ IsCommand(i) /\ ~Nullish(hist[i].ev.properties)
    /\ Field(PropsOf(i), "command") # Str("otel")
C12_OtherCommandsIgnored ==
    \A i \in Steps : IsOtherCommand(i) =>
        /\ hist[i].after = hist[i].before
        /\ hist[i].logs = <<>> /\ hist[i].adds = <<>>
        /\ hist[i].result = Undef /\ ~hist[i].threw
C12_Witness ==
    \E i, j \in Steps :
        /\ IsOtherCommand(i) /\ hist[i].before.enabled
        /\ IsOtherCommand(j) /\ ~hist[j].before.enabled
(***************************************************************************)
(* C13: in the opencode profile a session.created with a resolvable id     *)
(* (info.id, else id), handled while enabled, makes exactly one            *)
(* session.count increment of 1, which carries that session.id where the   *)
(* configuration includes session ids, and exactly one session.created     *)
(* log event with the session's title; without a resolvable id it makes    *)
(* neither and registers nothing.                                          *)
(***************************************************************************)
IsSessionCreated(i) == hist[i].ev.type = "session.created" /\ hist[i].before.enabled
TitleOf(i) == Coalesce(Field(Field(PropsOf(i), "info"), "title"), Str(""))
C14_NoSessionCreatedEventWhenMirrored ==
    config.telemetryProfile = "claude-code" =>
        /\ \A k \in 1..Len(events) : NameOf(events[k]) # "session.created"
        /\ \A i \in Steps :
                (IsSessionCreated(i) /\ Truthy(CreatedId(i))) =>
                    /\ Len(hist[i].adds) = 1
                    /\ hist[i].adds[1].name = "claude_code.session.count"
(***************************************************************************)
(* C15: in the claude-code profile every numeric attribute value on every  *)
(* emitted log event is rendered as its decimal string: no attribute of    *)
(* any log event is a number.                                              *)
(***************************************************************************)
C15_NumbersAreStringsWhenMirrored ==
    config.telemetryProfile = "claude-code" =>
        \A k \in 1..Len(events) : \A a \in DOMAIN events[k].attributes :
            events[k].attributes[a].t # "num"

(***************************************************************************)
(* C16: every metric data point and every log event carries the base       *)
(* attributes, in particular user.id, whatever event produced it.          *)
(***************************************************************************)
C16_UserIdEverywhere ==
    /\ \A k \in 1..Len(events) :
            Has(events[k], "user.id") /\ events[k].attributes["user.id"] = userId
    /\ \A k \in 1..Len(metrics) :
            Has(metrics[k], "user.id") /\ metrics[k].attributes["user.id"] = userId

(***************************************************************************)
(* C17: a metric data point or log event carries session.id only if the    *)
(* configuration includes session ids and the handled event supplied one;  *)
(* with includeSessionId false nothing emitted carries session.id.         *)
(***************************************************************************)
\* the session ids an event's payload names
SuppliedIds(i) ==
    LET p == PropsOf(i)
    IN  {v \in {Field(p, "sessionID"), Field(p, "id"), Field(Field(p, "info"), "id"),
                Field(Field(p, "info"), "sessionID"), Field(Field(p, "part"), "sessionID")} :
            ~Nullish(v)}
C17_SessionIdOnlyIfConfigured ==
    /\ \A i \in Steps :
            /\ \A k \in 1..Len(hist[i].logs) :
                    Has(hist[i].logs[k], "session.id") =>
                        /\ config.includeSessionId
                        /\ hist[i].logs[k].attributes["session.id"] \in SuppliedIds(i)
            /\ \A k \in 1..Len(hist[i].adds) :
                    Has(hist[i].adds[k], "session.id") =>
                        /\ config.includeSessionId
                        /\ hist[i].adds[k].attributes["session.id"] \in SuppliedIds(i)
    /\ ~config.includeSessionId =>
            /\ \A k \in 1..Len(events) : ~Has(events[k], "session.id")
            /\ \A k \in 1..Len(metrics) : ~Has(metrics[k], "session.id")
C17_Witness ==
    /\ ~config.includeSessionId
    /\ \E i, j \in Steps :
            /\ SuppliedIds(i) # {} /\ hist[i].logs # <<>>
            /\ SuppliedIds(j) # {} /\ hist[j].adds # <<>>
(***************************************************************************)
(* C18: with prompt logging off no emitted log event carries a prompt      *)
(* attribute; with it on, the user_prompt event of a handled chat.message  *)
(* carries the cleaned prompt (text parts joined by line feeds, white      *)
(* space trimmed, one pair of surrounding double quotes removed) cut to    *)
(* its first 4096 characters.                                              *)
(***************************************************************************)
RawPrompt(i) == joinLines(textsOf(Field(PropsOf(i), "parts").a))
\* white space as String.prototype.trim sees it, among the characters used here
Blank(ch) == ch \in {" ", "\n", "\t", "\r"}
CleanedPrompt(i) ==
    LET raw == RawPrompt(i)
        n == Len(raw)
        first == CHOOSE x \in 1..n : ~Blank(raw[x]) /\ \A y \in 1..(x - 1) : Blank(raw[y])
        \* counted from the end: the last character that is not white space
        back == CHOOSE k \in 1..n :
                    ~Blank(raw[n + 1 - k]) /\ \A y \in 1..(k - 1) : Blank(raw[n + 1 - y])
        last == n + 1 - back
    IN  IF \A x \in 1..n : Blank(raw[x]) THEN <<>>
        ELSE IF first < last /\ raw[first] = "\"" /\ raw[last] = "\""
        THEN SubSeq(raw, first + 1, last - 1)
        ELSE SubSeq(raw, first, last)
C18_PromptOnlyWhenLogged ==
    /\ ~config.logUserPrompts => \A k \in 1..Len(events) : ~Has(events[k], "prompt")
    /\ config.logUserPrompts =>
            \A i \in Steps : ChatHandled(i) =>
                LET cleaned == CleanedPrompt(i)
                    kept == IF Len(cleaned) < 4096 THEN Len(cleaned) ELSE 4096
                IN  /\ Len(hist[i].logs) = 1
                    /\ NameOf(hist[i].logs[1]) = "user_prompt"
                    /\ Has(hist[i].logs[1], "prompt")
                    /\ hist[i].logs[1].attributes["prompt"] = Text(SubSeq(cleaned, 1, kept))
C18_Witness ==
    /\ config.logUserPrompts
    /\ \E i, j \in Steps :
            /\ ChatHandled(i) /\ Len(RawPrompt(i)) = 4101
            /\ Len(hist[i].logs[1].attributes["prompt"].c) = 4096
            /\ ChatHandled(j) /\ Len(RawPrompt(j)) = 4096
            /\ Len(hist[j].logs[1].attributes["prompt"].c) = 4096
(***************************************************************************)
(* C19: with tool-detail logging off every tool_result log event has       *)
(* tool_name "redacted" and neither tool_args nor tool_result_size_bytes;  *)
(* with it on, tool_name is the tool's name, tool_args is the JSON text of *)
(* the arguments ({} when there are none) cut to its first 2048            *)
(* characters, and tool_result_size_bytes is the length of the output (0   *)
(* when there is none).                                                    *)
(***************************************************************************)
\* the JSON text of the arguments of step i: {"key":"value"} or {}
ArgsJson(i) ==
    LET args == Field(PropsOf(i), "args")
        key == IF "command" \in DOMAIN args.f THEN "command" ELSE "path"
        name == IF key = "command" THEN <<"c", "o", "m", "m", "a", "n", "d">>
                ELSE <<"p", "a", "t", "h">>
    IN  IF Nullish(args) THEN <<"{", "}">>
        ELSE <<"{", "\"">> \o name \o <<"\"", ":", "\"">> \o args.f[key].c \o <<"\"", "}">>
OutputSize(i) ==
    LET output == Field(PropsOf(i), "output")
    IN  IF output.t = "text" THEN Len(output.c) ELSE 0
C19_ToolDetailsOnlyWhenLogged ==
    \A i \in Steps : \A k \in 1..Len(hist[i].logs) :
        LET e == hist[i].logs[k]
            json == ArgsJson(i)
            kept == IF Len(json) < 2048 THEN Len(json) ELSE 2048
        IN  NameOf(e) = "tool_result" =>
                IF config.logToolDetails
                THEN /\ e.attributes["tool_name"] = Field(PropsOf(i), "tool")
                     /\ Has(e, "tool_args")
                     /\ e.attributes["tool_args"] = Text(SubSeq(json, 1, kept))
                     /\ Has(e, "tool_result_size_bytes")
                     /\ IsNumber(e.attributes["tool_result_size_bytes"], OutputSize(i))
                ELSE /\ e.attributes["tool_name"] = Str("redacted")
                     /\ ~Has(e, "tool_args")
                     /\ ~Has(e, "tool_result_size_bytes")
C19_Witness ==
    /\ config.logToolDetails
    /\ \E i, j \in Steps :
            /\ IsToolAfter(i) /\ Len(ArgsJson(i)) = 2049 /\ hist[i].logs # <<>>
            /\ Len(hist[i].logs[1].attributes["tool_args"].c) = 2048
            /\ IsToolAfter(j) /\ Len(ArgsJson(j)) = 2048 /\ hist[j].logs # <<>>
            /\ hist[j].logs[1].attributes["tool_args"] = Text(ArgsJson(j))
(***************************************************************************)
(* C20: one bad event never halts the stream: an exception raised while    *)
(* an event is handled is caught by the hook that delivered it and does    *)
(* not reach the host, and the next delivered event is handled from the    *)
(* state the failed handler left.                                          *)
(***************************************************************************)
C20_BadEventDoesNotHalt ==
    ViaPlugin =>
        /\ \A i \in Steps : ~hist[i].escaped
        /\ ~Halted
        /\ \A i \in Steps : (hist[i].threw /\ i + 1 \in Steps) =>
                hist[i + 1].before = hist[i].after
C20_Witness ==
    /\ ViaPlugin
    /\ \E i, j, k \in Steps :
            /\ i < j /\ j < k
            /\ hist[i].ev.type = "chat.message" /\ hist[i].threw
            /\ hist[j].ev.type = "tool.execute.after" /\ hist[j].threw
            /\ hist[k].ev.type = "session.created" /\ hist[k].logs # <<>>

(***************************************************************************)
(* C21: an event of a kind the switch does not know is ignored without     *)
(* error: the handler does not throw, increments no counter, emits no log  *)
(* event, returns nothing and leaves sessions, pending tool calls, the     *)
(* sequence counter, the prompt id, the emitted message ids and the        *)
(* enabled flag as they were, whether telemetry is enabled or not.         *)
(***************************************************************************)
KnownTypes ==
    {"command.execute.before", "session.created", "session.idle", "session.status",
     "file.edited", "message.part.updated", "message.updated", "session.error",
     "permission.replied", "session.diff", "tool.execute.before", "tool.execute.after",
     "chat.message"}
IsUnknown(i) == hist[i].ev.type \notin KnownTypes
C21_UnknownEventIgnored ==
    \A i \in Steps : IsUnknown(i) =>
        /\ ~hist[i].threw
        /\ hist[i].logs = <<>> /\ hist[i].adds = <<>>
        /\ hist[i].after = hist[i].before
        /\ hist[i].result = Undef
C21_Witness ==
    \E i, j \in Steps :
        /\ i < j /\ IsUnknown(j) /\ hist[j].before.enabled
        /\ hist[j].before.sessions # EmptyObj /\ hist[j].before.eventSequence > 0
        /\ hist[j].ev.properties # Undef
        /\ hist[j].after = hist[j].before /\ hist[j].logs = <<>>

(***************************************************************************)
(* C22: under the claude-code profile the log sink never holds a           *)
(* plugin.started event.                                                   *)
(***************************************************************************)
C22_NoPluginStartedWhenMirrored ==
    config.telemetryProfile = "claude-code" =>
        \A i \in 1..Len(events) : NameOf(events[i]) # "plugin.started"

(***************************************************************************)
(* C23: in every reachable state the profile the translator reads from the *)
(* telemetry context (telemetry.profile) is the configured                 *)
(* telemetryProfile.                                                       *)
(***************************************************************************)
C23_ProfileMatchesConfig == profileOf(telemetry) = config.telemetryProfile

(***************************************************************************)
(* C24: a session.idle handled while enabled, whose id (info.id, else id,  *)
(* else sessionID) names a registered session, increments                  *)
(* active_time.total exactly when the time since that session's last       *)
(* activity is above zero, by that time in seconds, and then sets the      *)
(* session's last activity to now, changing nothing else; for an id that   *)
(* names no registered session (or no id) it emits nothing and changes     *)
(* nothing. It never emits a log event.                                    *)
(***************************************************************************)
IsIdle(i) == hist[i].ev.type = "session.idle" /\ hist[i].before.enabled
IdleId(i) ==
    LET p == PropsOf(i)
        nested == Field(Field(p, "info"), "id")
    IN  IF ~Nullish(nested) THEN nested
        ELSE IF ~Nullish(Field(p, "id")) THEN Field(p, "id")
        ELSE Field(p, "sessionID")
IdleKnown(i) == Truthy(IdleId(i)) /\ IdleId(i) \in DOMAIN hist[i].before.sessions
ElapsedMs(i) == hist[i].at - hist[i].before.sessions[IdleId(i)].lastActivityAt
C24_IdleCountsActiveTime ==
    \A i \in Steps : IsIdle(i) =>
        /\ hist[i].logs = <<>> /\ ~hist[i].threw
        /\ IF IdleKnown(i)
           THEN /\ IF ElapsedMs(i) > 0
                   THEN /\ Len(hist[i].adds) = 1
                        /\ hist[i].adds[1].name = telemetry.prefix \o ".active_time.total"
                        /\ hist[i].adds[1].amount.t = "num"
                        /\ hist[i].adds[1].amount.n * 1000 = ElapsedMs(i) * hist[i].adds[1].amount.d
                   ELSE hist[i].adds = <<>>
                /\ hist[i].after.sessions =
                       [hist[i].before.sessions EXCEPT ![IdleId(i)].lastActivityAt = hist[i].at]
                /\ [hist[i].after EXCEPT !.sessions = hist[i].before.sessions] = hist[i].before
           ELSE hist[i].adds = <<>> /\ hist[i].after = hist[i].before
\* a registered session goes idle after the clock has moved
C24_Witness ==
    \E i \in Steps :
        /\ IsIdle(i) /\ IdleKnown(i) /\ ElapsedMs(i) > 0 /\ Len(hist[i].adds) = 1
        /\ hist[i].after.sessions[IdleId(i)].lastActivityAt = hist[i].at

(***************************************************************************)
(* C30: a session.created for a session id that is already registered      *)
(* leaves that session's creation timestamp and last-activity timestamp    *)
(* as they were.                                                           *)
(***************************************************************************)
C30_SecondCreatedTouchesNothing ==
    \A i \in Steps :
        (IsSessionCreated(i) /\ Truthy(CreatedId(i))
            /\ CreatedId(i) \in DOMAIN hist[i].before.sessions) =>
            /\ hist[i].after.sessions[CreatedId(i)].startedAt
                   = hist[i].before.sessions[CreatedId(i)].startedAt
            /\ hist[i].after.sessions[CreatedId(i)].lastActivityAt
                   = hist[i].before.sessions[CreatedId(i)].lastActivityAt

(***************************************************************************)
(* C25: a message.updated of an assistant message that lacks the token     *)
(* usage or the completion timestamp emits nothing and changes nothing, so *)
(* it does not take the message's id: of the later updates of the same id  *)
(* that have both, the first emits one api_request with its metrics and    *)
(* every further one emits nothing.                                        *)
(***************************************************************************)
IsAssistantUpdate(i) ==
    /\ hist[i].ev.type = "message.updated" /\ hist[i].before.enabled
    /\ Field(Field(PropsOf(i), "info"), "role") = Str("assistant")
HasTokens(i) == Truthy(Field(Field(PropsOf(i), "info"), "tokens"))
HasCompleted(i) ==
    LET time == Field(Field(PropsOf(i), "info"), "time")
    IN  time.t = "obj" /\ "completed" \in DOMAIN time.f /\ time.f["completed"] # Undef
Partial(i) == IsAssistantUpdate(i) /\ ~(HasTokens(i) /\ HasCompleted(i))
Whole(i) == IsAssistantUpdate(i) /\ HasTokens(i) /\ HasCompleted(i)
C25_PartialKeepsKey ==
    /\ \A i \in Steps : Partial(i) =>
            /\ hist[i].logs = <<>> /\ hist[i].adds = <<>> /\ ~hist[i].threw
            /\ hist[i].after = hist[i].before
    /\ \A i, j \in Steps :
            (i < j /\ Partial(i) /\ Whole(j) /\ MessageIdOf(i) = MessageIdOf(j)) =>
                LET emitting == {k \in 1..j : /\ hist[k].ev.type = "message.updated"
                                              /\ MessageIdOf(k) = MessageIdOf(j)
                                              /\ Len(Named(hist[k].logs, "api_request")) > 0}
                    first == CHOOSE k \in 1..j :
                                 /\ Whole(k) /\ MessageIdOf(k) = MessageIdOf(j)
                                 /\ \A m \in 1..(k - 1) : ~(Whole(m) /\ MessageIdOf(m) = MessageIdOf(j))
                IN  /\ emitting = {first}
                    /\ Len(Named(hist[first].logs, "api_request")) = 1
                    /\ Len(hist[first].adds) = TokenFields(first) + CostFields(first)
                    /\ first # j => hist[j].logs = <<>> /\ hist[j].adds = <<>>
\* an update without completion time, then the complete one, then the complete
\* one again
C25_Witness ==
    \E i, j, k \in Steps :
        /\ i < j /\ j < k
        /\ Partial(i) /\ HasTokens(i) /\ Whole(j) /\ Whole(k)
        /\ MessageIdOf(i) = MessageIdOf(j) /\ MessageIdOf(j) = MessageIdOf(k)
        /\ Len(Named(hist[j].logs, "api_request")) = 1 /\ hist[j].adds # <<>>
        /\ hist[k].logs = <<>>

(***************************************************************************)
(* C26: every tool.execute.after handled while enabled increments          *)
(* commit.count once if the tool is bash and its command argument matches  *)
(* /\bgit\s+commit\b/ and not at all otherwise, and pull_request.count     *)
(* once if the tool is bash and the command matches /\bgh\s+pr\s+create\b/ *)
(* or /\bgit\s+push\b.*--.*pull-request/ and not at all otherwise; another *)
(* tool, or a call without a command string, increments neither. The       *)
(* commands of the model that match each pattern are listed here by hand.  *)
(***************************************************************************)
HasShellCommand(i) ==
    LET args == Field(PropsOf(i), "args")
    IN  /\ Field(PropsOf(i), "tool") = Str("bash")
        /\ args.t = "obj" /\ "command" \in DOMAIN args.f /\ args.f["command"].t = "text"
ShellCommand(i) == Field(PropsOf(i), "args").f["command"].c
CommitCommands ==
    {<<"g", "i", "t", " ", "c", "o", "m", "m", "i", "t">>,
     <<"g", "i", "t", " ", "c", "o", "m", "m", "i", "t", ";",
       "g", "h", " ", " ", "p", "r", "\t", "c", "r", "e", "a", "t", "e">>}
PullRequestCommands ==
    {<<"g", "h", " ", "p", "r", " ", "c", "r", "e", "a", "t", "e">>,
     <<"g", "i", "t", " ", "c", "o", "m", "m", "i", "t", ";",
       "g", "h", " ", " ", "p", "r", "\t", "c", "r", "e", "a", "t", "e">>,
     <<"g", "i", "t", " ", "p", "u", "s", "h", " ", "-", "-", "o", " ",
       "p", "u", "l", "l", "-", "r", "e", "q", "u", "e", "s", "t">>}
C26_CommitAndPullRequestCounts ==
    \A i \in Steps : IsToolAfter(i) =>
        /\ Len(Counted(hist[i].adds, "commit.count"))
               = IF HasShellCommand(i) /\ ShellCommand(i) \in CommitCommands THEN 1 ELSE 0
        /\ Len(Counted(hist[i].adds, "pull_request.count"))
               = IF HasShellCommand(i) /\ ShellCommand(i) \in PullRequestCommands THEN 1 ELSE 0
        /\ \A k \in 1..Len(hist[i].adds) :
               hist[i].adds[k].name \in {telemetry.prefix \o ".commit.count",
                                         telemetry.prefix \o ".pull_request.count"}
                   => hist[i].adds[k].amount = Num(1)
\* one command that matches both patterns, one that matches only the second
\* pull-request pattern, and a near miss of the commit pattern
C26_Witness ==
    \E i, j, k \in Steps :
        /\ IsToolAfter(i) /\ HasShellCommand(i)
        /\ ShellCommand(i) \in CommitCommands \cap PullRequestCommands
        /\ Len(Counted(hist[i].adds, "commit.count")) = 1
        /\ Len(Counted(hist[i].adds, "pull_request.count")) = 1
        /\ IsToolAfter(j) /\ HasShellCommand(j) /\ Includes(ShellCommand(j), PULLREQUEST)
        /\ Len(Counted(hist[j].adds, "pull_request.count")) = 1
        /\ IsToolAfter(k) /\ HasShellCommand(k) /\ Includes(ShellCommand(k), COMMIT)
        /\ hist[k].adds = <<>>

(***************************************************************************)
(* C27: the success attribute of every tool_result log event is false when *)
(* the event's output is a string that contains "Error" and true when it   *)
(* is a string that does not, or is absent.                                *)
(***************************************************************************)
OutputOf(i) == Field(PropsOf(i), "output")
ContainsError(c) ==
    \E k \in 1..(Len(c) - 4) :
        /\ c[k] = "E" /\ c[k + 1] = "r" /\ c[k + 2] = "r" /\ c[k + 3] = "o" /\ c[k + 4] = "r"
C27_SuccessFlag ==
    \A i \in Steps : (IsToolAfter(i) /\ OutputOf(i).t \in {"text", "undefined"}) =>
        /\ Len(Named(hist[i].logs, "tool_result")) = 1
        /\ Named(hist[i].logs, "tool_result")[1].attributes["success"]
               = Bool(~(OutputOf(i).t = "text" /\ ContainsError(OutputOf(i).c)))
\* outputs "Error", "an Error!", "error" and none
C27_Witness ==
    \E i, j, k \in Steps :
        /\ IsToolAfter(i) /\ OutputOf(i).t = "text" /\ ContainsError(OutputOf(i).c)
        /\ OutputOf(i).c[1] # "E"
        /\ hist[i].logs[1].attributes["success"] = Bool(FALSE)
        /\ IsToolAfter(j) /\ OutputOf(j).t = "text" /\ OutputOf(j).c # <<>>
        /\ hist[j].logs[1].attributes["success"] = Bool(TRUE)
        /\ IsToolAfter(k) /\ OutputOf(k) = Undef
        /\ hist[k].logs[1].attributes["success"] = Bool(TRUE)

(***************************************************************************)
(* C28: the user_prompt event of a handled chat.message carries            *)
(* prompt_length, the number of characters of the cleaned prompt, and,     *)
(* where prompts are logged, prompt, the first 4096 characters of it. The  *)
(* cleaned prompt is the texts of the parts of type text that have a text  *)
(* which is not empty, in order, joined by line feeds, with surrounding    *)
(* white space trimmed and then one pair of surrounding double quotes      *)
(* removed: parts [text "Hello", image, text "World"] give the prompt      *)
(* "Hello\nWorld" and prompt_length 11. A part of type text whose text is  *)
(* empty or missing is skipped like a part of another type.                *)
(***************************************************************************)
RECURSIVE TextParts(_, _)
TextParts(a, skipEmpty) ==
    IF a = <<>> THEN <<>>
    ELSE LET p == Head(a)
             txt == IF p.t = "obj" /\ "text" \in DOMAIN p.f /\ p.f["text"].t = "text"
                    THEN p.f["text"].c ELSE <<>>
             isText == p.t = "obj" /\ "type" \in DOMAIN p.f /\ p.f["type"] = Str("text")
         IN  IF isText /\ (txt # <<>> \/ ~skipEmpty)
             THEN <<txt>> \o TextParts(Tail(a), skipEmpty)
             ELSE TextParts(Tail(a), skipEmpty)
RECURSIVE JoinedByLineFeed(_)
JoinedByLineFeed(ts) ==
    IF ts = <<>> THEN <<>>
    ELSE IF Len(ts) = 1 THEN ts[1]
    ELSE ts[1] \o <<"\n">> \o JoinedByLineFeed(Tail(ts))
Stripped(raw) ==
    LET n == Len(raw)
        first == CHOOSE x \in 1..n : ~Blank(raw[x]) /\ \A y \in 1..(x - 1) : Blank(raw[y])
        back == CHOOSE k \in 1..n :
                    ~Blank(raw[n + 1 - k]) /\ \A y \in 1..(k - 1) : Blank(raw[n + 1 - y])
        last == n + 1 - back
    IN  IF \A x \in 1..n : Blank(raw[x]) THEN <<>>
        ELSE IF first < last /\ raw[first] = "\"" /\ raw[last] = "\""
        THEN SubSeq(raw, first + 1, last - 1)
        ELSE SubSeq(raw, first, last)
PromptAsJoined(i, skipEmpty) ==
    LET cleaned == Stripped(JoinedByLineFeed(TextParts(Field(PropsOf(i), "parts").a, skipEmpty)))
        kept == IF Len(cleaned) < 4096 THEN Len(cleaned) ELSE 4096
    IN  /\ Len(hist[i].logs) = 1
        /\ NameOf(hist[i].logs[1]) = "user_prompt"
        /\ Has(hist[i].logs[1], "prompt_length")
        /\ IsNumber(hist[i].logs[1].attributes["prompt_length"], Len(cleaned))
        /\ Has(hist[i].logs[1], "prompt") =>
               hist[i].logs[1].attributes["prompt"] = Text(SubSeq(cleaned, 1, kept))
C28_PromptOfNonEmptyTextParts == \A i \in Steps : ChatHandled(i) => PromptAsJoined(i, TRUE)
\* the claim as stated: every part of type text takes part in the join
C28_PromptOfAllTextParts == \A i \in Steps : ChatHandled(i) => PromptAsJoined(i, FALSE)
\* the three-part example, a prompt longer than the cap, and an empty text part
C28_Witness ==
    \E i, j, k \in Steps :
        /\ ChatHandled(i) /\ Len(Field(PropsOf(i), "parts").a) = 3
        /\ hist[i].logs[1].attributes["prompt_length"] \in {Num(11), Str("11")}
        /\ Has(hist[i].logs[1], "prompt")
        /\ hist[i].logs[1].attributes["prompt"]
               = Text(<<"H", "e", "l", "l", "o", "\n", "W", "o", "r", "l", "d">>)
        /\ ChatHandled(j) /\ hist[j].logs[1].attributes["prompt_length"] \in {Num(4097), Str("4097")}
        /\ Len(hist[j].logs[1].attributes["prompt"].c) = 4096
        /\ ChatHandled(k) /\ hist[k].logs[1].attributes["prompt_length"] \in {Num(3), Str("3")}
        /\ hist[k].logs[1].attributes["prompt"] = Text(<<"a", "\n", "b">>)

(***************************************************************************)
(* C29: in either profile the encoder returns an attribute set whose       *)
(* values are all strings or booleans as it is, and it returns its own     *)
(* result as it is when that is encoded again in the same profile.         *)
(***************************************************************************)
AllStringsOrBooleans(attrs) == \A k \in DOMAIN attrs : attrs[k].t \in {"str", "text", "bool"}
C29_EncodingNoOpAndIdempotent ==
    \A k \in 1..Len(encoded) :
        /\ AllStringsOrBooleans(encoded[k].attrs) => encoded[k].out = encoded[k].attrs
        /\ \A j \in 1..(k - 1) :
               (encoded[j].profile = encoded[k].profile /\ encoded[j].out = encoded[k].attrs)
                   => encoded[k].out = encoded[k].attrs
\* numbers are turned into strings, and the result is encoded once more; a set
\* with a boolean is encoded too
C29_Witness ==
    \E i, j, k \in 1..Len(encoded) :
        /\ i < j
        /\ encoded[i].profile = "claude-code" /\ encoded[j].profile = "claude-code"
        /\ encoded[i].out # encoded[i].attrs
        /\ encoded[j].attrs = encoded[i].out /\ encoded[j].out = encoded[j].attrs
        /\ encoded[k].profile = "claude-code"
        /\ \E a \in DOMAIN encoded[k].attrs : encoded[k].attrs[a].t = "bool"
        /\ AllStringsOrBooleans(encoded[k].attrs) /\ encoded[k].out = encoded[k].attrs

(***************************************************************************)
(* C32: the first complete update of an assistant message that carries an  *)
(* error emits, besides its api_request, exactly one api_error log event   *)
(* with the error's name and message and, where the error's data has       *)
(* them, its status code and its retryability flag.                        *)
(***************************************************************************)
ErrorOf(i) == Field(Field(PropsOf(i), "info"), "error")
FirstWhole(i) ==
    /\ Whole(i)
    /\ \A j \in 1..(i - 1) : ~(Whole(j) /\ MessageIdOf(j) = MessageIdOf(i))
CarriesError(e, error) ==
    LET data == Field(error, "data")
    IN  /\ Has(e, "error.name") /\ e.attributes["error.name"] = Field(error, "name")
        /\ Has(e, "error.message") /\ e.attributes["error.message"] = Field(data, "message")
        /\ Truthy(Field(data, "statusCode")) =>
               /\ Has(e, "error.status_code")
               /\ e.attributes["error.status_code"] \in
                      {Field(data, "statusCode"), Str(Dec(Field(data, "statusCode").n))}
        /\ Field(data, "isRetryable") # Undef =>
               /\ Has(e, "error.is_retryable")
               /\ e.attributes["error.is_retryable"] = Field(data, "isRetryable")
C32_MessageErrorFullyReported ==
    \A i \in Steps : (FirstWhole(i) /\ Truthy(ErrorOf(i))) =>
        /\ Len(Named(hist[i].logs, "api_request")) = 1
        /\ Len(Named(hist[i].logs, "api_error")) = 1
        /\ CarriesError(Named(hist[i].logs, "api_error")[1], ErrorOf(i))

(***************************************************************************)
(* C33: every message.part.updated whose part is of type retry, handled    *)
(* while enabled, emits exactly one api_error log event with the part's    *)
(* attempt number (0 when it has none) and leaves the set of emitted       *)
(* message ids alone, however often the same part has been delivered       *)
(* before: n deliveries give n api_error events.                           *)
(***************************************************************************)
PartOf(i) == IF Nullish(Field(PropsOf(i), "part")) THEN PropsOf(i) ELSE Field(PropsOf(i), "part")
IsPart(i) == hist[i].ev.type = "message.part.updated" /\ hist[i].before.enabled
IsRetry(i) == IsPart(i) /\ Field(PartOf(i), "type") = Str("retry")
AttemptOf(i) == IF Nullish(Field(PartOf(i), "attempt")) THEN 0 ELSE Field(PartOf(i), "attempt").n
C31_LastBeforeWins ==
    /\ \A i \in Steps : IsToolBefore(i) =>
            /\ ~hist[i].threw /\ hist[i].logs = <<>>
            /\ DOMAIN hist[i].after.pendingToolCalls
                   = DOMAIN hist[i].before.pendingToolCalls \cup {CallIdOf(i)}
            /\ hist[i].after.pendingToolCalls[CallIdOf(i)].tool = Field(PropsOf(i), "tool")
            /\ hist[i].after.pendingToolCalls[CallIdOf(i)].args = Field(PropsOf(i), "args")
            /\ hist[i].after.pendingToolCalls[CallIdOf(i)].startedAt = hist[i].at
            /\ \A c \in DOMAIN hist[i].before.pendingToolCalls \ {CallIdOf(i)} :
                   hist[i].after.pendingToolCalls[c] = hist[i].before.pendingToolCalls[c]
    /\ \A i, j \in Steps :
            (/\ i < j /\ IsToolBefore(i) /\ IsToolAfter(j) /\ CallIdOf(i) = CallIdOf(j)
             /\ \A m \in (i + 1)..(j - 1) :
                    ~((IsToolBefore(m) \/ IsToolAfter(m)) /\ CallIdOf(m) = CallIdOf(i))
             /\ hist[j].logs # <<>>) =>
                IsNumber(hist[j].logs[1].attributes["duration_ms"], hist[j].at - hist[i].at)
\* two befores of one call at different times, then its after at a later time
C31_Witness ==
    \E i, j, k \in Steps :
        /\ i < j /\ j < k
        /\ IsToolBefore(i) /\ IsToolBefore(j) /\ IsToolAfter(k)
        /\ CallIdOf(i) = CallIdOf(j) /\ CallIdOf(j) = CallIdOf(k)
        /\ Field(PropsOf(i), "tool") # Field(PropsOf(j), "tool")
        /\ hist[i].at < hist[j].at /\ hist[j].at < hist[k].at
        /\ CallIdOf(j) \in DOMAIN hist[j].before.pendingToolCalls
        /\ IsNumber(hist[k].logs[1].attributes["duration_ms"], hist[k].at - hist[j].at)

(***************************************************************************)
(* C39: in every state, for every session id, the active_time.total        *)
(* increments made by the session.idle events of that id add up to no more *)
(* than the time that has passed since the id was first registered (the    *)
(* clock never runs backwards): each idle counts the time since the last   *)
(* created, idle or status of the session, so no millisecond is counted    *)
(* twice.                                                                  *)
(***************************************************************************)
\* milliseconds added to active_time.total by step i
ActiveMs(i) ==
    LET a == Counted(hist[i].adds, "active_time.total")
    IN  IF a = <<>> THEN 0 ELSE (a[1].amount.n * 1000) \div a[1].amount.d
RECURSIVE ActiveSum(_, _)
ActiveSum(s, k) ==
    IF k = 0 THEN 0
    ELSE ActiveSum(s, k - 1)
            + (IF hist[k].ev.type = "session.idle" /\ IdleId(k) = s THEN ActiveMs(k) ELSE 0)
Registered(s) == {i \in Steps : IsSessionCreated(i) /\ CreatedId(i) = s}
C39_ActiveTimeWithinWallClock ==
    \A s \in {S1, S2} :
        /\ Registered(s) = {} => ActiveSum(s, Len(hist)) = 0
        /\ Registered(s) # {} =>
               LET first == CHOOSE i \in Registered(s) : \A j \in Registered(s) : i <= j
               IN  ActiveSum(s, Len(hist)) <= now - hist[first].at
\* a session that goes idle twice, each time after the clock has moved
C39_Witness ==
    \E i, j \in Steps :
        /\ i < j /\ IsIdle(i) /\ IsIdle(j) /\ IdleId(i) = S1 /\ IdleId(j) = S1
        /\ ActiveMs(i) > 0 /\ ActiveMs(j) > 0
        /\ ActiveSum(S1, Len(hist)) = ActiveMs(i) + ActiveMs(j)

(***************************************************************************)
(* C35: the registries change only through their owning events. Across     *)
(* every handled event no session id leaves the session registry and no    *)
(* message id leaves the de-duplication set; a call id leaves the pending  *)
(* registry only when the event is a tool.execute.after with that call id; *)
(* and between two events nothing changes at all.                          *)
(***************************************************************************)
C35_RegistriesChangeThroughOwners ==
    /\ \A i \in Steps :
          /\ DOMAIN hist[i].before.sessions \subseteq DOMAIN hist[i].after.sessions
          /\ hist[i].before.emittedMessageIds \subseteq hist[i].after.emittedMessageIds
          /\ \A c \in DOMAIN hist[i].before.pendingToolCalls :
                 c \notin DOMAIN hist[i].after.pendingToolCalls
                    => IsToolAfter(i) /\ CallIdOf(i) = c
          /\ i > 1 =>
                 /\ hist[i].before.sessions = hist[i - 1].after.sessions
                 /\ hist[i].before.pendingToolCalls = hist[i - 1].after.pendingToolCalls
                 /\ hist[i].before.emittedMessageIds = hist[i - 1].after.emittedMessageIds
    /\ Len(hist) > 0 =>
          /\ sessions = hist[Len(hist)].after.sessions
          /\ pendingToolCalls = hist[Len(hist)].after.pendingToolCalls
          /\ emittedMessageIds = hist[Len(hist)].after.emittedMessageIds
\* a call is opened, an id is registered while it is pending, and the call's
\* tool.execute.after removes it and leaves the id where it was
C35_Witness ==
    \E i, j, k \in Steps :
        /\ i < j /\ j < k
        /\ IsToolBefore(i) /\ IsToolAfter(k) /\ CallIdOf(k) = CallIdOf(i)
        /\ CallIdOf(i) \in DOMAIN hist[j].after.pendingToolCalls
        /\ CallIdOf(i) \in DOMAIN hist[k].before.pendingToolCalls
        /\ CallIdOf(i) \notin DOMAIN pendingToolCalls
        /\ \/ DOMAIN hist[j].after.sessions # DOMAIN hist[j].before.sessions
           \/ hist[j].after.emittedMessageIds # hist[j].before.emittedMessageIds
        /\ DOMAIN sessions = DOMAIN hist[j].after.sessions
        /\ emittedMessageIds = hist[j].after.emittedMessageIds

(***************************************************************************)
(* C36: an event other than the /otel command, handled while the enabled   *)
(* flag is false, leaves every field of the hook state as it was           *)
(* (registries, sequence counter, prompt id, flag). So what was dropped    *)
(* was never registered: once enabled again, a session.idle of a session   *)
(* whose session.created was only seen while disabled changes nothing and  *)
(* counts nothing, a tool.execute.after whose tool.execute.before was only *)
(* seen while disabled reports duration_ms 0, and a message.updated whose  *)
(* earlier deliveries were all dropped emits its api_request.              *)
(***************************************************************************)
Dropped(i) == ~hist[i].before.enabled /\ ~IsCommand(i)
Kept(i) == hist[i].before.enabled /\ ~IsCommand(i)
C36_DisabledChangesNothing ==
    /\ \A i \in Steps : Dropped(i) =>
            /\ hist[i].after = hist[i].before
            /\ ~hist[i].threw /\ hist[i].result = Undef
    /\ \A k \in Steps :
          /\ (Kept(k) /\ hist[k].ev.type = "session.idle"
                /\ ~\E i \in 1..(k - 1) : Kept(i) /\ hist[i].ev.type = "session.created") =>
                    hist[k].after = hist[k].before /\ hist[k].adds = <<>>
          /\ (Kept(k) /\ hist[k].ev.type = "tool.execute.after"
                /\ ~\E i \in 1..(k - 1) : Kept(i) /\ hist[i].ev.type = "tool.execute.before") =>
                    /\ Len(hist[k].logs) = 1
                    /\ IsNumber(hist[k].logs[1].attributes["duration_ms"], 0)
          /\ (Kept(k) /\ hist[k].ev.type = "message.updated"
                /\ ~\E i \in 1..(k - 1) : Kept(i) /\ hist[i].ev.type = "message.updated") =>
                    Len(Named(hist[k].logs, "api_request")) = 1
\* a tool.execute.before dropped while disabled, and its tool.execute.after
\* handled later on the clock and after the flag is set again
C36_Witness ==
    \E i, k \in Steps :
        /\ i < k /\ Dropped(i) /\ hist[i].ev.type = "tool.execute.before"
        /\ Kept(k) /\ hist[k].ev.type = "tool.execute.after"
        /\ hist[k].at > hist[i].at
        /\ Len(hist[k].logs) = 1
        /\ IsNumber(hist[k].logs[1].attributes["duration_ms"], 0)

(***************************************************************************)
(* C37: handling an event is all-or-nothing. Whenever the handler of an    *)
(* event throws, that event has incremented no counter, emitted no log     *)
(* event and left every field of the hook state (pending registry, message *)
(* ids, sequence counter, prompt id) as it was.                            *)
(***************************************************************************)
C37_FailureChangesNothing ==
    \A i \in Steps : hist[i].threw =>
        /\ hist[i].adds = <<>>
        /\ hist[i].logs = <<>>
        /\ hist[i].after = hist[i].before

(***************************************************************************)
(* C38: every increment handed to the metric sink, of every counter and    *)
(* for every payload, has a strictly positive amount.                      *)
(***************************************************************************)
C38_IncrementsArePositive ==
    \A i \in Steps : \A k \in 1..Len(hist[i].adds) :
        hist[i].adds[k].amount.n > 0 /\ hist[i].adds[k].amount.d > 0

(***************************************************************************)
(* C40: the prompt id belongs to the process, not to a session. Every      *)
(* handled chat.message installs an id that no earlier one installed, and  *)
(* every log event emitted afterwards, whatever session its event names,   *)
(* carries the id installed by the most recent handled chat.message of any *)
(* session; before the first chat.message no log event has a prompt.id.    *)
(***************************************************************************)
SessionOf(i) == Field(PropsOf(i), "sessionID")
C40_PromptIdIsProcessWide ==
    /\ \A i \in Steps : ChatHandled(i) =>
            /\ Truthy(hist[i].after.promptId)
            /\ \A j \in 1..(i - 1) : hist[j].after.promptId # hist[i].after.promptId
    /\ \A i \in Steps : \A k \in 1..Len(hist[i].logs) :
            LET chats == {j \in 1..i : ChatHandled(j)}
            IN  IF chats = {} THEN "prompt.id" \notin DOMAIN hist[i].logs[k].attributes
                ELSE /\ "prompt.id" \in DOMAIN hist[i].logs[k].attributes
                     /\ hist[i].logs[k].attributes["prompt.id"]
                            = hist[LastOf(chats)].after.promptId
\* a tool_result of a session that never had a prompt, carrying the prompt id
\* of another session's chat.message
C40_Witness ==
    \E j, i \in Steps :
        /\ j < i /\ ChatHandled(j) /\ IsToolAfter(i)
        /\ SessionOf(i) # SessionOf(j)
        /\ \A x \in Steps : ChatHandled(x) => SessionOf(x) = SessionOf(j)
        /\ Len(hist[i].logs) = 1
        /\ hist[i].logs[1].attributes["prompt.id"] = hist[j].after.promptId

====
